---- MODULE Spec2Model ----
(***************************************************************************)
(* Tickeroo: per-project time tracking snapshots shared by several editor  *)
(* windows (processes).  The model covers StorageService's snapshot        *)
(* read / save path (src/src/storage.ts) and the Tracker session state     *)
(* machine with optimistic-lock handling (src/unnamed/part_007, the        *)
(* Tracker class at lines 16-886).                                         *)
(*                                                                         *)
(* Time is in milliseconds.  The wall clock advances in steps of TickMs;   *)
(* between two steps of the clock any number of program steps may happen   *)
(* ("the same millisecond").  ISO-8601 strings produced by toISOString()   *)
(* carry millisecond precision and new Date(iso).getTime() returns the     *)
(* same integer, so a timestamp string is represented by its millisecond   *)
(* value.  A local calendar day (formatLocalDay) is the number of whole    *)
(* DayMs periods since the epoch of the local clock.                       *)
(*                                                                         *)
(* Every await on the project's snapshot file is a separate step of the    *)
(* process, so the windows interleave at the granularity of individual     *)
(* file reads and writes.                                                  *)
(*                                                                         *)
(* Three specifications share the variables.  Spec: the windows' Start,    *)
(* Stop, Switch, crash and init on one shared project.  SpecTicker: the    *)
(* same with the one-second ticker and the editor's activity events.       *)
(* SpecStore: StorageService's activity log, project index and the file    *)
(* operations of atomicWrite, one operation at a time in one process.      *)
(***************************************************************************)
EXTENDS Integers, Sequences, FiniteSets, TLC

\* ------------------------------------------------------------------ bounds
Procs == {"p", "q"}
Tasks == {"a", "b"}

TickMs == 500

DayMs == 1000

MaxClock == 2500

MaxOps == 3

MaxIOFail == 1

\* persistLastActivity's throttle (part_007:821)
ActivityThrottleMs == 1000

\* Tracker.idleThreshold (part_007:23), 5 minutes
IdleThresholdMs == 300000

\* ------------------------------------------------------------------ values
\* absent optional number / string (undefined)
Undef == 0 - 1

NoTask == ""

Max(a, b) == IF a >= b THEN a ELSE b

Min(a, b) == IF a <= b THEN a ELSE b

\* a conversion to seconds that drops the fraction
TruncSeconds(ms) == ms \div 1000

\* Math.round(ms / 1000): rounds half towards +Infinity
RoundSeconds(ms) == (ms + 500) \div 1000

\* Tracker.formatLocalDay
formatLocalDay(t) == t \div DayMs

\* boundary = new Date(effectiveStop); boundary.setHours(0, 0, 0, 0)
LocalMidnight(t) == formatLocalDay(t) * DayMs

ZeroTasks == [t \in Tasks |-> 0]

\* ActiveSession | null | undefined
UndefCurrent == [kind |-> "undef", task |-> NoTask, start |-> Undef, entryDay |-> Undef]

NullCurrent == [kind |-> "null", task |-> NoTask, start |-> Undef, entryDay |-> Undef]

SetCurrent(task, start, day) == [kind |-> "set", task |-> task, start |-> start, entryDay |-> day]

\* a check that never sees a running timer
NeverCurrent(s) == FALSE

\* truthiness of snapshot.current
HasCurrent(s) == s.current.kind = "set"

\* SessionEntry; end = Undef when the entry is pending
NewEntry(task, start) == [task |-> task, start |-> start, end |-> Undef, seconds |-> 0]

\* !entry.end
Incomplete(e) == e.end = Undef

\* { totalSeconds: 0, tasks: {}, entries: [] } filed under `day`
NewDayRecord(day) == [day |-> day, totalSeconds |-> 0, tasks |-> ZeroTasks, entries |-> <<>>]

\* the default a failed read returns: { days: {}, lastModified: Date.now() }
EmptySnapshot(now) == [days |-> <<>>, lastTask |-> NoTask, current |-> UndefCurrent, lastModified |-> now]

\* activeSession = null
NoSession == [active |-> FALSE, task |-> NoTask, start |-> Undef]

ActiveSessionOf(task, start) == [active |-> TRUE, task |-> task, start |-> start]

\* ------------------------------------------------------------------ storage
\* The snapshot file: missing, or the JSON text of a snapshot.
MissingFile == [state |-> "missing", snap |-> EmptySnapshot(Undef)]

FileOf(s) == [state |-> "ok", snap |-> s]

\* StorageService.readProjectSnapshot: parse the file; every failure (missing
\* file, unparsable text) yields the empty default stamped with Date.now().
readProjectSnapshot(file, now) ==
  IF file.state = "ok"
  THEN [days |-> file.snap.days,
        lastTask |-> file.snap.lastTask,
        current |-> IF file.snap.current.kind = "undef" THEN NullCurrent ELSE file.snap.current,
        lastModified |-> IF file.snap.lastModified = Undef THEN 0 ELSE file.snap.lastModified]
  ELSE EmptySnapshot(now)

\* a comparison that only notices a file newer than the snapshot
SnapshotConflictNewerOnly(snapshot_, currentOnDisk) ==
  /\ snapshot_.lastModified # Undef
  /\ currentOnDisk.lastModified # Undef
  /\ currentOnDisk.lastModified > snapshot_.lastModified

\* the optimistic-lock comparison of saveProjectSnapshot
SnapshotConflict(snapshot, currentOnDisk) ==
  /\ snapshot.lastModified # Undef
  /\ currentOnDisk.lastModified # Undef
  /\ currentOnDisk.lastModified # snapshot.lastModified

\* serializable = { ...snapshot, version, lastModified: Date.now() }
Serializable(snapshot, now) == [snapshot EXCEPT !.lastModified = now]

\* ------------------------------------------------------------------ tracker helpers
\* position of the record of `day` in snapshot.days (insertion order), 0 if none
DayIndex(days, day) ==
  IF \E k \in 1..Len(days) : days[k].day = day
  THEN CHOOSE k \in 1..Len(days) : days[k].day = day /\ \A j \in 1..(k - 1) : days[j].day # day
  ELSE 0

\* Tracker.ensureDayRecord
ensureDayRecord(days, day) ==
  IF DayIndex(days, day) # 0 THEN days ELSE Append(days, NewDayRecord(day))

\* entries.findIndex((entry) => entry.start === startIso), 1-based, 0 for -1
IndexByStart(entries, startIso) ==
  IF \E i \in 1..Len(entries) : entries[i].start = startIso
  THEN CHOOSE i \in 1..Len(entries) :
         entries[i].start = startIso /\ \A j \in 1..(i - 1) : entries[j].start # startIso
  ELSE 0

\* a search for an entry without end that skips the first entry
IndexIncompleteAfterFirst(entries) ==
  IF \E i \in 2..Len(entries) : Incomplete(entries[i])
  THEN CHOOSE i \in 2..Len(entries) :
         Incomplete(entries[i]) /\ \A j \in 2..(i - 1) : ~Incomplete(entries[j])
  ELSE 0

\* entries.findIndex((entry) => !entry.end)
IndexIncomplete(entries) ==
  IF \E i \in 1..Len(entries) : Incomplete(entries[i])
  THEN CHOOSE i \in 1..Len(entries) :
         Incomplete(entries[i]) /\ \A j \in 1..(i - 1) : ~Incomplete(entries[j])
  ELSE 0

\* Tracker.ensurePendingEntry: reuse the entry with this start, else push one
ensurePendingEntry(rec, task, startIso) ==
  LET i == IndexByStart(rec.entries, startIso)
  IN IF i # 0
     THEN [rec EXCEPT !.entries[i].task = task, !.entries[i].end = Undef]
     ELSE [rec EXCEPT !.entries = Append(@, NewEntry(task, startIso))]

\* Tracker.start, the mutation of the snapshot (provisional entry, current, lastTask)
StartMutation(s, task, startTime) ==
  LET entryDay == formatLocalDay(startTime)
      days1 == ensureDayRecord(s.days, entryDay)
      k == DayIndex(days1, entryDay)
  IN [s EXCEPT !.days = [days1 EXCEPT ![k] = ensurePendingEntry(@, task, startTime)],
               !.current = SetCurrent(task, startTime, entryDay),
               !.lastTask = task]

\* a position in snapshot.days: day record d, entry i; null is NoLoc
NoLoc == [d |-> 0, i |-> 0]

\* Tracker.findSessionEntry
findSessionEntry(days, day, startIso) ==
  LET d == DayIndex(days, day)
  IN IF d = 0 \/ IndexByStart(days[d].entries, startIso) = 0
     THEN NoLoc
     ELSE [d |-> d, i |-> IndexByStart(days[d].entries, startIso)]

\* Tracker.findSessionEntryAnywhere
findSessionEntryAnywhere(days, startIso) ==
  IF \E d \in 1..Len(days) : IndexByStart(days[d].entries, startIso) # 0
  THEN LET d == CHOOSE d \in 1..Len(days) :
                  /\ IndexByStart(days[d].entries, startIso) # 0
                  /\ \A j \in 1..(d - 1) : IndexByStart(days[j].entries, startIso) = 0
       IN [d |-> d, i |-> IndexByStart(days[d].entries, startIso)]
  ELSE NoLoc

\* a scan for pending entries that never finds one
findNoIncompleteEntry(days) == NoLoc

\* Tracker.findFirstIncompleteEntry
findFirstIncompleteEntry(days) ==
  IF \E d \in 1..Len(days) : IndexIncomplete(days[d].entries) # 0
  THEN LET d == CHOOSE d \in 1..Len(days) :
                  /\ IndexIncomplete(days[d].entries) # 0
                  /\ \A j \in 1..(d - 1) : IndexIncomplete(days[j].entries) = 0
       IN [d |-> d, i |-> IndexIncomplete(days[d].entries)]
  ELSE NoLoc

\* a stop that takes the requested time as it is
EffectiveStopUnclamped(start, stopTime) == stopTime

\* effectiveStop = stopTime < start ? start : stopTime
EffectiveStop(start, stopTime) == IF stopTime < start THEN start ELSE stopTime

\* totals that count a duration twice
AddSecondsTwice(rec, task, seconds) ==
  [rec EXCEPT !.totalSeconds = @ + 2 * seconds, !.tasks[task] = @ + 2 * seconds]

\* add `seconds` of `task` to a day record's totals
AddSeconds(rec, task, seconds) ==
  [rec EXCEPT !.totalSeconds = @ + seconds, !.tasks[task] = @ + seconds]

\* a stop that clears current and leaves the session's entry as it is
StopClearsCurrentOnly(s, stopTime) ==
  [s EXCEPT !.lastTask = s.current.task, !.current = NullCurrent]

\* Tracker.stopTimerForEntry, the mutation of a snapshot that has a current:
\* locate (or synthesize) the session's entry, finalize it, splitting it at the
\* local midnight of the stop day when it lies in another day, clear current.
StopMutation(s, stopTime) ==
  LET current == s.current
      start == current.start
      effectiveStop == EffectiveStop(start, stopTime)
      seconds == Max(0, RoundSeconds(effectiveStop - start))
      stopDay == formatLocalDay(effectiveStop)
      preferredDay == IF current.entryDay = Undef THEN formatLocalDay(start) ELSE current.entryDay
      f1 == findSessionEntry(s.days, preferredDay, start)
      f2 == findSessionEntry(s.days, stopDay, start)
      f3 == findSessionEntryAnywhere(s.days, start)
      found == IF f1 # NoLoc THEN f1 ELSE IF f2 # NoLoc THEN f2 ELSE f3
      fb == ensureDayRecord(s.days, stopDay)
      fk == DayIndex(fb, stopDay)
      days0 == IF found # NoLoc THEN s.days
               ELSE [fb EXCEPT ![fk].entries = Append(@, NewEntry(current.task, start))]
      loc == IF found # NoLoc THEN found ELSE [d |-> fk, i |-> Len(days0[fk].entries)]
      boundary == LocalMidnight(effectiveStop)
      firstSeconds == Max(0, RoundSeconds(boundary - start))
      secondSeconds == Max(0, RoundSeconds(effectiveStop - boundary))
      first == [days0 EXCEPT ![loc.d] =
                  AddSeconds([@ EXCEPT !.entries[loc.i] =
                                [task |-> current.task, start |-> start,
                                 end |-> boundary, seconds |-> firstSeconds]],
                             current.task, firstSeconds)]
      withStopDay == ensureDayRecord(first, stopDay)
      sk == DayIndex(withStopDay, stopDay)
      split == [withStopDay EXCEPT ![sk] =
                  AddSeconds([@ EXCEPT !.entries =
                                Append(@, [task |-> current.task, start |-> boundary,
                                           end |-> effectiveStop, seconds |-> secondSeconds])],
                             current.task, secondSeconds)]
      single == [days0 EXCEPT ![loc.d] =
                  AddSeconds([@ EXCEPT !.entries[loc.i] =
                                [task |-> current.task, start |-> start,
                                 end |-> effectiveStop, seconds |-> seconds]],
                             current.task, seconds)]
  IN [s EXCEPT !.days = IF days0[loc.d].day # stopDay THEN split ELSE single,
               !.lastTask = current.task,
               !.current = NullCurrent]

\* Tracker.finalizeManualEntry on entry i of a day record
finalizeManualEntry(rec, i, endDate) ==
  LET e == rec.entries[i]
      seconds == Max(0, RoundSeconds(endDate - e.start))
  IN AddSeconds([rec EXCEPT !.entries[i].end = endDate, !.entries[i].seconds = seconds],
                e.task, seconds)

\* promptForManualEndTime on the first incomplete entry, with the end time the
\* user entered
ResolveMutation(s, endDate) ==
  LET loc == findFirstIncompleteEntry(s.days)
  IN [s EXCEPT !.days[loc.d] = finalizeManualEntry(@, loc.i, endDate)]

\* the clock times an HH:MM input can denote: buildEndDateFromInput sets the
\* time of day on the start's date
EndCandidates(start) ==
  {t \in {k * TickMs : k \in 0..(MaxClock \div TickMs)} : formatLocalDay(t) = formatLocalDay(start)}

\* an input box that accepts every well-formed time
AcceptEveryEndTime(endDate, start) == TRUE

\* Tracker.validateEndTimeInput: TRUE when the input box accepts the end time
validateEndTimeInput(endDate, start) == ~(endDate < start)

\* the end times the input box accepts for an entry started at `start`
EndInputs(start) == {t \in EndCandidates(start) : validateEndTimeInput(t, start)}

\* a verification that accepts whatever it reads
VerifiedAnyway(verify, entryDay, startIso, task) == TRUE

\* the check Tracker.start makes on the snapshot it reads back after its write
StartVerified(verify, entryDay, startIso, task) ==
  LET d == DayIndex(verify.days, entryDay)
      hasEntry == d # 0 /\ IndexByStart(verify.days[d].entries, startIso) # 0
      currentOk == verify.current.kind = "set" /\ verify.current.start = startIso
                   /\ verify.current.task = task
  IN hasEntry /\ currentOk

\* Tracker.persistLastActivity: does this timestamp get written?
ActivityPersisted(timestamp, lastPersistedActivity) ==
  ~(timestamp <= 0) /\ ~(timestamp - lastPersistedActivity < ActivityThrottleMs)

\* ------------------------------------------------------------------ store: values
Paths == {"/x", "/y"}
Names == {"n1", "n2"}
MaxDay == 2
MaxStoreOps == 3

\* StorageService.computeProjectId: the sha1 digest of the path
computeProjectId(path) == IF path = "/x" THEN "c7" ELSE "4e"

ProjectIds == {computeProjectId(path) : path \in Paths}

\* path.basename
BaseName(path) == IF path = "/x" THEN "x" ELSE "y"

\* displayName left out by the caller
NoName == ""

\* Date strings.  day numbers the calendar days in their order (0: no day);
\* rest is what follows the first ten characters.
EmptyString == [day |-> 0, rest |-> ""]

DayString(d) == [day |-> d, rest |-> ""]

IsoString(d) == [day |-> d, rest |-> "T12:00:00.000Z"]

DateStrings ==
  {EmptyString} \cup {DayString(d) : d \in 1..MaxDay} \cup {IsoString(d) : d \in 1..MaxDay}

\* String.prototype.slice(0, 10)
Slice10(str) == [day |-> str.day, rest |-> ""]

\* a <= b on strings (code-unit order; a prefix sorts before its extensions)
StringLE(a, b) ==
  \/ a.day < b.day
  \/ a.day = b.day /\ (a.rest = "" \/ a.rest = b.rest)

\* index of the entry of (normalizedDate, projectId), 0 if there is none
\* (Array.prototype.find in recordActivity)
FindActivity(entries, normalizedDate, projectId) ==
  LET hits == {i \in DOMAIN entries :
                 entries[i].date = normalizedDate /\ entries[i].projectId = projectId}
  IN IF hits = {} THEN 0 ELSE CHOOSE i \in hits : \A j \in hits : i <= j

\* a record that appends without looking for the pair
AppendedEntries(entries, projectId, projectName, date) ==
  IF date = EmptyString
  THEN entries
  ELSE Append(entries, [date |-> Slice10(date), projectId |-> projectId,
                        projectName |-> projectName])

\* StorageService.recordActivity: the entries it leaves in memory
RecordedEntries(entries, projectId, projectName, date) ==
  IF date = EmptyString
  THEN entries
  ELSE LET normalizedDate == Slice10(date)
           existing == FindActivity(entries, normalizedDate, projectId)
       IN IF existing # 0
          THEN IF entries[existing].projectName # projectName
               THEN [entries EXCEPT ![existing].projectName = projectName]
               ELSE entries
          ELSE Append(entries, [date |-> normalizedDate, projectId |-> projectId,
                                projectName |-> projectName])

\* a range test that leaves both end days out
TouchedBetweenExclusive(entries, startDate, endDate) ==
  LET from == Slice10(startDate)
      to == Slice10(endDate)
  IN {entries[i].projectId : i \in {j \in DOMAIN entries :
        ~StringLE(entries[j].date, from) /\ ~StringLE(to, entries[j].date)}}

\* StorageService.getProjectsTouchedBetween
getProjectsTouchedBetween(entries, startDate, endDate) ==
  LET from == Slice10(startDate)
      to == Slice10(endDate)
  IN {entries[i].projectId : i \in {j \in DOMAIN entries :
        StringLE(from, entries[j].date) /\ StringLE(entries[j].date, to)}}

\* StorageService.findProjectByPath / findProjectById: index of the entry, 0 if none
findProjectByPath(projects, path) ==
  LET hits == {i \in DOMAIN projects : projects[i].path = path}
  IN IF hits = {} THEN 0 ELSE CHOOSE i \in hits : \A j \in hits : i <= j

findProjectById(projects, projectId) ==
  LET hits == {i \in DOMAIN projects : projects[i].id = projectId}
  IN IF hits = {} THEN 0 ELSE CHOOSE i \in hits : \A j \in hits : i <= j

\* StorageService.listProjects: the ids it returns
listProjects(projects) == {projects[i].id : i \in DOMAIN projects}

\* StorageService.upsertProjectMetadata: the projects it leaves in memory
UpsertedProjects(projects, path, displayName) ==
  LET existing == findProjectByPath(projects, path)
  IN IF existing # 0
     THEN IF displayName # NoName /\ projects[existing].name # displayName
          THEN [projects EXCEPT ![findProjectById(projects, projects[existing].id)] =
                  [projects[existing] EXCEPT !.name = displayName]]
          ELSE projects
     ELSE Append(projects, [id |-> computeProjectId(path), path |-> path,
                            name |-> IF displayName # NoName THEN displayName
                                     ELSE BaseName(path)])

\* StorageService.updateProjectName: the projects it leaves in memory
RenamedProjects(projects, projectId, name) ==
  LET entry == findProjectById(projects, projectId)
  IN IF entry = 0 \/ projects[entry].name = name
     THEN projects
     ELSE [projects EXCEPT ![entry].name = name]

\* StorageService.updateProjectPath: the projects it leaves in memory
MovedProjects(projects, projectId, newPath) ==
  LET entry == findProjectById(projects, projectId)
  IN IF entry = 0
     THEN projects
     ELSE [projects EXCEPT ![entry].path = newPath]

\* what a file holds when its text cannot be parsed (cut short by a failed copy or write)
CorruptFile == [state |-> "corrupt", snap |-> EmptySnapshot(Undef)]

\* the two snapshots the store is asked to write
StoreSnapshots ==
  {[EmptySnapshot(TickMs) EXCEPT !.lastTask = "a"],
   [EmptySnapshot(2 * TickMs) EXCEPT !.lastTask = "b"]}

\* a project folder without snapshot file, .tmp or .bak
EmptyFolder == [main |-> MissingFile, tmp |-> MissingFile, bak |-> MissingFile]

\* What the file operations of one atomicWrite call do: each either succeeds,
\* fails leaving its destination as it was, or fails leaving it cut short
\* (rename and delete fail without effect).  An operation the call does not
\* reach is listed as "ok".
Faults ==
  {f \in [writeTemp : {"ok", "unchanged", "partial"},
          backup : {"ok", "unchanged", "partial"},
          rename : {"ok", "fail"},
          copy : {"ok", "unchanged", "partial"},
          delete : {"ok", "fail"},
          cleanup : {"ok", "fail"}] :
     /\ f.writeTemp # "ok" => f.backup = "ok" /\ f.rename = "ok"
     /\ f.rename = "ok" => f.copy = "ok" /\ f.delete = "ok"
     /\ f.copy # "ok" => f.delete = "ok"
     /\ (f.writeTemp = "ok" /\ f.copy = "ok" /\ f.delete = "ok") => f.cleanup = "ok"}

\* StorageService.atomicWrite: the files it leaves in the folder
AtomicWritten(folder, bytes, f) ==
  LET tmpWritten == IF f.writeTemp = "ok" THEN FileOf(bytes)
                    ELSE IF f.writeTemp = "partial" THEN CorruptFile
                    ELSE folder.tmp
      cleaned == IF f.cleanup = "ok" THEN MissingFile ELSE tmpWritten
      exists == folder.main.state # "missing"
      backedUp == IF ~exists \/ f.backup = "unchanged" THEN folder.bak
                  ELSE IF f.backup = "ok" THEN folder.main
                  ELSE CorruptFile
  IN IF f.writeTemp # "ok"
     THEN [main |-> folder.main, tmp |-> cleaned, bak |-> folder.bak]
     ELSE IF f.rename = "ok"
     THEN [main |-> tmpWritten, tmp |-> MissingFile, bak |-> backedUp]
     ELSE IF f.copy = "ok"
     THEN [main |-> tmpWritten,
           tmp |-> IF f.delete = "ok" THEN MissingFile ELSE cleaned,
           bak |-> backedUp]
     ELSE [main |-> IF f.copy = "partial" THEN CorruptFile ELSE folder.main,
           tmp |-> cleaned,
           bak |-> backedUp]

\* one of the temp write, the backup copy, the rename or the fallback copy failed
StepFailed(folder, f) ==
  \/ f.writeTemp # "ok"
  \/ folder.main.state # "missing" /\ f.backup # "ok"
  \/ f.rename = "fail"

NoStoreOp == [kind |-> "none", args |-> <<>>, before |-> <<>>, result |-> <<>>, failed |-> FALSE]

\* ------------------------------------------------------------------ state
VARIABLES
  clock,                 \* Date.now(), ms
  file,                  \* the project's snapshot file (.vscode/time-tracker.json)
  lastActivity,          \* globalState[LAST_ACTIVITY_KEY], shared by all windows; 0 = unset
  pc,                    \* per window: where its running handler stands
  activeSession,         \* per window: Tracker.activeSession
  snapshot,              \* per window: the `snapshot` object Tracker.start works on
  stopSnapshot,          \* per window: the `snapshot` object stopTimerForEntry works on
  projectCache,          \* per window: StorageService.projectCache entry of the project
  alias,                 \* per window: how start's snapshot object is shared with the cache entry
  op,                    \* per window: arguments and locals of the running handler
  outcome,               \* per window: what the last Start / Stop reported
  lastPersistedActivity, \* per window: Tracker.lastPersistedActivity
  ops,                   \* number of user operations begun (bounded by MaxOps)
  ioFails,               \* number of file writes that failed (bounded by MaxIOFail)
  stale,                 \* per window: another window's write landed since its last read (history)
  startsOnly,            \* no operation other than Start was begun so far (history)
  seed,                  \* what the file held when the windows opened
  lastTick,              \* per window: Tracker.lastTick
  started,               \* per window: its activeSession was established by its own start (history)
  activityLog,           \* StorageService.activityLog.entries
  activityFile,          \* entries held by the activity log file
  index,                 \* StorageService.index.projects
  indexFile,             \* projects held by the index file
  disk,                  \* per project path: its snapshot file, the .tmp and the .bak beside it
  storeCache,            \* StorageService.projectCache, per project path
  storeOp,               \* the store operation run last, its arguments and its result
  storeOps,              \* number of store operations run (bounded by MaxStoreOps)
  peerLog,               \* activityLog.entries of a second process sharing the global storage
  readStack              \* the readProjectSnapshot calls that are running, outermost first

\* the store's files and side tables, looked at on their own under SpecStore
storeVars == <<activityLog, activityFile, index, indexFile, disk, storeCache, storeOp, storeOps,
               peerLog, readStack>>

\* the windows and the one project they share
trackerVars == <<clock, file, lastActivity, pc, activeSession, snapshot, stopSnapshot,
                 projectCache, alias, op, outcome, lastPersistedActivity, ops, ioFails, stale,
                 startsOnly, seed, lastTick, started>>

vars == <<trackerVars, storeVars>>

\* a snapshot variable that holds nothing (handler not running, cache entry absent)
Blank == EmptySnapshot(Undef)

NoOp == [task |-> NoTask, startTime |-> Undef, at |-> Undef, ret |-> "idle",
         newLm |-> Undef, curStart |-> Undef, effStop |-> Undef, retries |-> 0]

\* A file left behind by an abandoned session: one entry without end, started
\* and last written one tick before the windows open, and no current.
AbandonedSnapshot ==
  [days |-> <<[day |-> formatLocalDay(2 * TickMs), totalSeconds |-> 0, tasks |-> ZeroTasks,
               entries |-> <<NewEntry("a", 2 * TickMs)>>]>>,
   lastTask |-> "a", current |-> NullCurrent, lastModified |-> 2 * TickMs]

Init ==
  /\ clock = 3 * TickMs
  /\ seed \in {"new", "abandoned"}
  /\ file = IF seed = "new" THEN MissingFile ELSE FileOf(AbandonedSnapshot)
  /\ lastActivity = 0
  /\ pc = [p \in Procs |-> "idle"]
  /\ activeSession = [p \in Procs |-> NoSession]
  /\ snapshot = [p \in Procs |-> Blank]
  /\ stopSnapshot = [p \in Procs |-> Blank]
  /\ projectCache = [p \in Procs |-> Blank]
  /\ alias = [p \in Procs |-> "none"]
  /\ op = [p \in Procs |-> NoOp]
  /\ outcome = [p \in Procs |-> "none"]
  /\ lastPersistedActivity = [p \in Procs |-> 0]
  /\ ops = 0
  /\ ioFails = 0
  /\ stale = [p \in Procs |-> FALSE]
  /\ startsOnly = TRUE
  /\ lastTick = [p \in Procs |-> clock]
  /\ started = [p \in Procs |-> FALSE]
  /\ activityLog = <<>>
  /\ activityFile = <<>>
  /\ index = <<>>
  /\ indexFile = <<>>
  /\ disk = [path \in Paths |-> EmptyFolder]
  /\ storeCache = [path \in Paths |-> Blank]
  /\ storeOp = NoStoreOp
  /\ storeOps = 0
  /\ peerLog = <<>>
  /\ readStack = <<>>

\* the cache entry after start's snapshot object was mutated in place to s:
\* the cache holds the same object ("whole"), a shallow copy that shares its
\* days ("days"), or another object ("none")
Aliased(cacheNow, aliasNow, s) ==
  IF aliasNow = "whole" THEN s
  ELSE IF aliasNow = "days" THEN [cacheNow EXCEPT !.days = s.days]
  ELSE cacheNow

\* Tracker.persistLastActivity(timestamp) by window p
persistLastActivity(p, timestamp) ==
  IF ActivityPersisted(timestamp, lastPersistedActivity[p])
  THEN /\ lastPersistedActivity' = [lastPersistedActivity EXCEPT ![p] = timestamp]
       /\ lastActivity' = timestamp
  ELSE UNCHANGED <<lastPersistedActivity, lastActivity>>

\* Tracker.start from ensurePendingEntriesResolved's scan onwards, on snapshot s:
\* a pending entry leads to the prompt; otherwise a current rejects the start;
\* otherwise the snapshot is mutated and handed to saveProjectSnapshot.
Scan(p, s, cacheNow, aliasNow) ==
  LET pending == findFirstIncompleteEntry(s.days) # NoLoc
      go == ~pending /\ ~HasCurrent(s)
      s2 == IF go THEN StartMutation(s, op[p].task, op[p].startTime) ELSE s
  IN /\ snapshot' = [snapshot EXCEPT ![p] = IF pending \/ go THEN s2 ELSE Blank]
     /\ projectCache' = [projectCache EXCEPT ![p] = Aliased(cacheNow, aliasNow, s2)]
     /\ alias' = [alias EXCEPT ![p] = aliasNow]
     /\ pc' = [pc EXCEPT ![p] = IF pending THEN "prompt" ELSE IF go THEN "start_save" ELSE "idle"]
     /\ outcome' = [outcome EXCEPT ![p] = IF pending \/ go THEN @ ELSE "already"]
     /\ op' = [op EXCEPT ![p] = IF pending \/ go THEN @ ELSE NoOp]

\* the user may begin another operation
OpsLeft == ops < MaxOps

\* ------------------------------------------------------------------ the clock
Tick ==
  /\ clock + TickMs <= MaxClock
  /\ clock' = clock + TickMs
  /\ UNCHANGED <<file, lastActivity, pc, activeSession, snapshot, stopSnapshot, projectCache,
                 alias, op, outcome, lastPersistedActivity, ops, ioFails, stale, startsOnly, seed, lastTick, started, storeVars>>

\* ------------------------------------------------------------------ file steps
\* window p reads the file into the snapshot it is going to work on
Fresh(p) == stale' = [stale EXCEPT ![p] = FALSE]

\* StorageService.atomicWrite of the serialized snapshot by window p: the bytes
\* land in the file, or a step of the write fails, which atomicWrite logs and
\* swallows, leaving the file as it was
atomicWrite(p, ser) ==
  \/ /\ file' = FileOf(ser)
     /\ stale' = [w \in Procs |-> IF w = p THEN stale[w] ELSE TRUE]
     /\ UNCHANGED ioFails
  \/ /\ ioFails < MaxIOFail
     /\ ioFails' = ioFails + 1
     /\ UNCHANGED <<file, stale>>

\* ------------------------------------------------------------------ Tracker.start
\* the command handler calls tracker.start(path, task): startTime = new Date()
BeginStart(p, t) ==
  /\ pc[p] = "idle"
  /\ OpsLeft
  /\ ops' = ops + 1
  /\ pc' = [pc EXCEPT ![p] = "start_load"]
  /\ op' = [op EXCEPT ![p] = [NoOp EXCEPT !.task = t, !.startTime = clock]]
  /\ outcome' = [outcome EXCEPT ![p] = "none"]
  /\ UNCHANGED <<clock, file, lastActivity, activeSession, snapshot, stopSnapshot, projectCache,
                 alias, lastPersistedActivity, ioFails, stale, startsOnly, seed, lastTick, started, storeVars>>

\* loadLatestSnapshot, the already-running check, the stop of the window's own
\* session, and (when there is none) the scan for pending entries
StartLoad(p) ==
  /\ pc[p] = "start_load"
  /\ LET s == readProjectSnapshot(file, clock)
     IN IF HasCurrent(s)
        THEN /\ pc' = [pc EXCEPT ![p] = "idle"]
             /\ outcome' = [outcome EXCEPT ![p] = "already"]
             /\ projectCache' = [projectCache EXCEPT ![p] = s]
             /\ alias' = [alias EXCEPT ![p] = "none"]
             /\ op' = [op EXCEPT ![p] = NoOp]
             /\ UNCHANGED snapshot
        ELSE IF activeSession[p].active
        THEN /\ pc' = [pc EXCEPT ![p] = "stop_load"]
             /\ op' = [op EXCEPT ![p].at = Undef, ![p].ret = "start_resolve"]
             /\ snapshot' = [snapshot EXCEPT ![p] = s]
             /\ projectCache' = [projectCache EXCEPT ![p] = s]
             /\ alias' = [alias EXCEPT ![p] = "whole"]
             /\ UNCHANGED outcome
        ELSE Scan(p, s, s, "whole")
  /\ Fresh(p)
  /\ UNCHANGED <<clock, file, lastActivity, activeSession, stopSnapshot,
                 lastPersistedActivity, ops, ioFails, startsOnly, seed, lastTick, started, storeVars>>

\* the modal prompt of ensurePendingEntriesResolved: the user cancels
PromptCancel(p) ==
  /\ pc[p] = "prompt"
  /\ pc' = [pc EXCEPT ![p] = "idle"]
  /\ outcome' = [outcome EXCEPT ![p] = "cancelled"]
  /\ snapshot' = [snapshot EXCEPT ![p] = Blank]
  /\ op' = [op EXCEPT ![p] = NoOp]
  /\ UNCHANGED <<clock, file, lastActivity, activeSession, stopSnapshot, projectCache, alias,
                 lastPersistedActivity, ops, ioFails, stale, startsOnly, seed, lastTick, started, storeVars>>

\* the start of the entry the prompt of window p is about
PromptedStart(p) ==
  LET loc == findFirstIncompleteEntry(snapshot[p].days)
  IN snapshot[p].days[loc.d].entries[loc.i].start

\* the user enters an end time the input box accepts: finalizeManualEntry
PromptSetEnd(p) ==
  /\ pc[p] = "prompt"
  /\ \E endDate \in EndInputs(PromptedStart(p)) :
       /\ snapshot' = [snapshot EXCEPT ![p] = ResolveMutation(@, endDate)]
       /\ projectCache' = [projectCache EXCEPT ![p] =
                             Aliased(@, alias[p], ResolveMutation(snapshot[p], endDate))]
  /\ pc' = [pc EXCEPT ![p] = "res_save"]
  /\ UNCHANGED <<clock, file, lastActivity, activeSession, stopSnapshot, alias, op, outcome,
                 lastPersistedActivity, ops, ioFails, stale, startsOnly, seed, lastTick, started, storeVars>>

\* the user types an end time validateEndTimeInput refuses: the input box shows
\* the message and stays open, nothing is finalized
PromptRejectEnd(p) ==
  /\ pc[p] = "prompt"
  /\ \E endDate \in EndCandidates(PromptedStart(p)) :
       ~validateEndTimeInput(endDate, PromptedStart(p))
  /\ outcome' = [outcome EXCEPT ![p] = "invalid_end"]
  /\ UNCHANGED <<clock, file, lastActivity, pc, activeSession, snapshot, stopSnapshot, projectCache,
                 alias, op, lastPersistedActivity, ops, ioFails, stale, startsOnly, seed, lastTick, started, storeVars>>

\* saveProjectSnapshot of the resolved snapshot: read the file, compare
ResolveSaveRead(p) ==
  /\ pc[p] = "res_save"
  /\ IF SnapshotConflict(snapshot[p], readProjectSnapshot(file, clock))
     THEN /\ pc' = [pc EXCEPT ![p] = "res_reload"]
          /\ UNCHANGED op
     ELSE /\ pc' = [pc EXCEPT ![p] = "res_write"]
          /\ op' = [op EXCEPT ![p].newLm = clock]
  /\ UNCHANGED <<clock, file, lastActivity, activeSession, snapshot, stopSnapshot, projectCache,
                 alias, outcome, lastPersistedActivity, ops, ioFails, stale, startsOnly, seed, lastTick, started, storeVars>>

\* saveProjectSnapshot of the resolved snapshot: atomicWrite, the cache update,
\* and the next scan of the loop
ResolveWrite(p) ==
  /\ pc[p] = "res_write"
  /\ atomicWrite(p, Serializable(snapshot[p], op[p].newLm))
  /\ Scan(p, snapshot[p], Serializable(snapshot[p], op[p].newLm), "days")
  /\ UNCHANGED <<clock, lastActivity, activeSession, stopSnapshot,
                 lastPersistedActivity, ops, startsOnly, seed, lastTick, started, storeVars>>

\* a conflict branch that keeps the resolved snapshot and only takes over the
\* file's lastModified
ResolveReloadKeepsResolution(p) ==
  /\ pc[p] = "res_reload"
  /\ Fresh(p)
  /\ LET kept == [snapshot[p] EXCEPT
                    !.lastModified = readProjectSnapshot(file, clock).lastModified]
     IN Scan(p, kept, kept, "whole")
  /\ UNCHANGED <<clock, file, lastActivity, activeSession, stopSnapshot,
                 lastPersistedActivity, ops, ioFails, startsOnly, seed, lastTick, started, storeVars>>

\* the conflict branch of ensurePendingEntriesResolved: reload, scan again
ResolveReload(p) ==
  /\ pc[p] = "res_reload"
  /\ Fresh(p)
  /\ Scan(p, readProjectSnapshot(file, clock), readProjectSnapshot(file, clock), "whole")
  /\ UNCHANGED <<clock, file, lastActivity, activeSession, stopSnapshot,
                 lastPersistedActivity, ops, ioFails, startsOnly, seed, lastTick, started, storeVars>>

\* saveProjectSnapshot of the started snapshot: read the file, compare
StartSaveRead(p) ==
  /\ pc[p] = "start_save"
  /\ IF SnapshotConflict(snapshot[p], readProjectSnapshot(file, clock))
     THEN /\ pc' = [pc EXCEPT ![p] = "start_conflict"]
          /\ UNCHANGED op
     ELSE /\ pc' = [pc EXCEPT ![p] = "start_write"]
          /\ op' = [op EXCEPT ![p].newLm = clock]
  /\ UNCHANGED <<clock, file, lastActivity, activeSession, snapshot, stopSnapshot, projectCache,
                 alias, outcome, lastPersistedActivity, ops, ioFails, stale, startsOnly, seed, lastTick, started, storeVars>>

\* saveProjectSnapshot of the started snapshot: atomicWrite and the cache update
StartWrite(p) ==
  /\ pc[p] = "start_write"
  /\ atomicWrite(p, Serializable(snapshot[p], op[p].newLm))
  /\ projectCache' = [projectCache EXCEPT ![p] = Serializable(snapshot[p], op[p].newLm)]
  /\ alias' = [alias EXCEPT ![p] = "days"]
  /\ pc' = [pc EXCEPT ![p] = "start_verify"]
  /\ UNCHANGED <<clock, lastActivity, activeSession, snapshot, stopSnapshot, op, outcome,
                 lastPersistedActivity, ops, startsOnly, seed, lastTick, started, storeVars>>

\* a conflict handler that writes start's mutation over the other window's file
StartConflictReapplies(p) ==
  /\ pc[p] = "start_conflict"
  /\ file' = FileOf(Serializable(snapshot[p], clock))
  /\ projectCache' = [projectCache EXCEPT ![p] = Serializable(snapshot[p], clock)]
  /\ outcome' = [outcome EXCEPT ![p] = "retry"]
  /\ Fresh(p)
  /\ alias' = [alias EXCEPT ![p] = "none"]
  /\ snapshot' = [snapshot EXCEPT ![p] = Blank]
  /\ pc' = [pc EXCEPT ![p] = "idle"]
  /\ op' = [op EXCEPT ![p] = NoOp]
  /\ UNCHANGED <<clock, lastActivity, activeSession, stopSnapshot,
                 lastPersistedActivity, ops, ioFails, startsOnly, seed, lastTick, started, storeVars>>

\* the SNAPSHOT_CONFLICT branch of start: reload, report, give up
StartConflict(p) ==
  /\ pc[p] = "start_conflict"
  /\ LET refreshed == readProjectSnapshot(file, clock)
     IN /\ projectCache' = [projectCache EXCEPT ![p] = refreshed]
        /\ outcome' = [outcome EXCEPT ![p] = IF HasCurrent(refreshed) THEN "already" ELSE "retry"]
  /\ Fresh(p)
  /\ alias' = [alias EXCEPT ![p] = "none"]
  /\ snapshot' = [snapshot EXCEPT ![p] = Blank]
  /\ pc' = [pc EXCEPT ![p] = "idle"]
  /\ op' = [op EXCEPT ![p] = NoOp]
  /\ UNCHANGED <<clock, file, lastActivity, activeSession, stopSnapshot,
                 lastPersistedActivity, ops, ioFails, startsOnly, seed, lastTick, started, storeVars>>

\* the verification read after the write, and the establishment of the session
StartVerify(p) ==
  /\ pc[p] = "start_verify"
  /\ LET verify == readProjectSnapshot(file, clock)
         ok == StartVerified(verify, formatLocalDay(op[p].startTime), op[p].startTime, op[p].task)
     IN /\ projectCache' = [projectCache EXCEPT ![p] = verify]
        /\ IF ok
           THEN /\ activeSession' = [activeSession EXCEPT ![p] =
                                       ActiveSessionOf(op[p].task, snapshot[p].current.start)]
                /\ outcome' = [outcome EXCEPT ![p] = "started"]
                /\ started' = [started EXCEPT ![p] = TRUE]
                /\ lastTick' = [lastTick EXCEPT ![p] = op[p].startTime]
                /\ persistLastActivity(p, op[p].startTime)
           ELSE /\ outcome' = [outcome EXCEPT ![p] = "verify_failed"]
                /\ UNCHANGED <<activeSession, lastPersistedActivity, lastActivity, lastTick, started>>
  /\ alias' = [alias EXCEPT ![p] = "none"]
  /\ snapshot' = [snapshot EXCEPT ![p] = Blank]
  /\ pc' = [pc EXCEPT ![p] = "idle"]
  /\ op' = [op EXCEPT ![p] = NoOp]
  /\ UNCHANGED <<clock, file, stopSnapshot, ops, ioFails, stale, startsOnly, seed, storeVars>>

\* ------------------------------------------------------------------ Tracker.stop
\* stopTimerForEntry returns to its caller: the command handler, switchTask
\* (which goes on to start), or start (which goes on to the pending-entry scan
\* with the snapshot it loaded before the stop)
StopReturn(p, cacheNow, result) ==
  /\ stopSnapshot' = [stopSnapshot EXCEPT ![p] = Blank]
  /\ IF op[p].ret = "start_resolve"
     THEN Scan(p, snapshot[p], cacheNow, "none")
     ELSE /\ pc' = [pc EXCEPT ![p] = IF op[p].ret = "switch" THEN "start_load" ELSE "idle"]
          /\ outcome' = [outcome EXCEPT ![p] = IF op[p].ret = "switch" THEN @ ELSE result]
          /\ projectCache' = [projectCache EXCEPT ![p] = cacheNow]
          /\ alias' = [alias EXCEPT ![p] = "none"]
          /\ op' = [op EXCEPT ![p] = IF op[p].ret = "switch"
                                     THEN [NoOp EXCEPT !.task = op[p].task,
                                                       !.startTime = op[p].startTime,
                                                       !.ret = "switch_start"]
                                     ELSE NoOp]
          /\ UNCHANGED snapshot

\* the command handler calls tracker.stop() while a session is active
BeginStop(p) ==
  /\ pc[p] = "idle"
  /\ activeSession[p].active
  /\ OpsLeft
  /\ ops' = ops + 1
  /\ startsOnly' = FALSE
  /\ pc' = [pc EXCEPT ![p] = "stop_load"]
  /\ op' = [op EXCEPT ![p] = NoOp]
  /\ outcome' = [outcome EXCEPT ![p] = "none"]
  /\ UNCHANGED <<clock, file, lastActivity, activeSession, snapshot, stopSnapshot, projectCache,
                 alias, lastPersistedActivity, ioFails, stale, seed, lastTick, started, storeVars>>

\* the command handler calls tracker.stop() while the window has no session:
\* stop returns at once
StopWithoutSession(p) ==
  /\ pc[p] = "idle"
  /\ ~activeSession[p].active
  /\ OpsLeft
  /\ ops' = ops + 1
  /\ startsOnly' = FALSE
  /\ outcome' = [outcome EXCEPT ![p] = "no_session"]
  /\ UNCHANGED <<clock, file, lastActivity, pc, activeSession, snapshot, stopSnapshot, projectCache,
                 alias, op, lastPersistedActivity, ioFails, stale, seed, lastTick, started, storeVars>>

\* a stopTimerForEntry that keeps the window's session when the snapshot has
\* no current
StopLoadKeepsSession(p) ==
  /\ pc[p] = "stop_load"
  /\ LET s == readProjectSnapshot(file, clock)
         stopTime == IF op[p].at = Undef THEN clock ELSE op[p].at
     IN IF ~HasCurrent(s)
        THEN /\ UNCHANGED <<activeSession, started>>
             /\ StopReturn(p, s, "noop")
        ELSE /\ stopSnapshot' = [stopSnapshot EXCEPT ![p] = StopMutation(s, stopTime)]
             /\ projectCache' = [projectCache EXCEPT ![p] = StopMutation(s, stopTime)]
             /\ alias' = [alias EXCEPT ![p] = "none"]
             /\ op' = [op EXCEPT ![p].curStart = s.current.start,
                                 ![p].effStop = EffectiveStop(s.current.start, stopTime)]
             /\ pc' = [pc EXCEPT ![p] = "stop_save"]
             /\ UNCHANGED <<activeSession, started, snapshot, outcome>>
  /\ Fresh(p)
  /\ UNCHANGED <<clock, file, lastActivity, lastPersistedActivity, ops, ioFails, startsOnly, seed, lastTick, storeVars>>

\* stopTimerForEntry: loadLatestSnapshot; without a current drop the session,
\* otherwise finalize the session's entry in the loaded snapshot
StopLoad(p) ==
  /\ pc[p] = "stop_load"
  /\ LET s == readProjectSnapshot(file, clock)
         stopTime == IF op[p].at = Undef THEN clock ELSE op[p].at
     IN IF ~HasCurrent(s)
        THEN /\ activeSession' = [activeSession EXCEPT ![p] = NoSession]
             /\ started' = [started EXCEPT ![p] = FALSE]
             /\ StopReturn(p, s, "noop")
        ELSE /\ stopSnapshot' = [stopSnapshot EXCEPT ![p] = StopMutation(s, stopTime)]
             /\ projectCache' = [projectCache EXCEPT ![p] = StopMutation(s, stopTime)]
             /\ alias' = [alias EXCEPT ![p] = "none"]
             /\ op' = [op EXCEPT ![p].curStart = s.current.start,
                                 ![p].effStop = EffectiveStop(s.current.start, stopTime)]
             /\ pc' = [pc EXCEPT ![p] = "stop_save"]
             /\ UNCHANGED <<activeSession, started, snapshot, outcome>>
  /\ Fresh(p)
  /\ UNCHANGED <<clock, file, lastActivity, lastPersistedActivity, ops, ioFails, startsOnly, seed, lastTick, storeVars>>

\* saveProjectSnapshot of the stopped snapshot: read the file, compare
StopSaveRead(p) ==
  /\ pc[p] = "stop_save"
  /\ IF SnapshotConflict(stopSnapshot[p], readProjectSnapshot(file, clock))
     THEN /\ pc' = [pc EXCEPT ![p] = "stop_reload"]
          /\ UNCHANGED op
     ELSE /\ pc' = [pc EXCEPT ![p] = "stop_write"]
          /\ op' = [op EXCEPT ![p].newLm = clock]
  /\ UNCHANGED <<clock, file, lastActivity, activeSession, snapshot, stopSnapshot, projectCache,
                 alias, outcome, lastPersistedActivity, ops, ioFails, stale, startsOnly, seed, lastTick, started, storeVars>>

\* saveProjectSnapshot of the stopped snapshot: atomicWrite and the cache
\* update; then the session is dropped and the stop time persisted
StopWrite(p) ==
  /\ pc[p] = "stop_write"
  /\ atomicWrite(p, Serializable(stopSnapshot[p], op[p].newLm))
  /\ StopReturn(p, Serializable(stopSnapshot[p], op[p].newLm), "stopped")
  /\ activeSession' = [activeSession EXCEPT ![p] = NoSession]
  /\ started' = [started EXCEPT ![p] = FALSE]
  /\ lastTick' = [lastTick EXCEPT ![p] = op[p].effStop]
  /\ persistLastActivity(p, op[p].effStop)
  /\ UNCHANGED <<clock, ops, startsOnly, seed, storeVars>>

\* the SNAPSHOT_CONFLICT branch of stopTimerForEntry: reload; if the same
\* session is still current run stopTimerForEntry again, else drop the session
StopReload(p) ==
  /\ pc[p] = "stop_reload"
  /\ LET refreshed == readProjectSnapshot(file, clock)
     IN IF ~HasCurrent(refreshed) \/ refreshed.current.start # op[p].curStart
        THEN /\ activeSession' = [activeSession EXCEPT ![p] = NoSession]
             /\ started' = [started EXCEPT ![p] = FALSE]
             /\ StopReturn(p, refreshed, "noop")
        ELSE /\ pc' = [pc EXCEPT ![p] = "stop_load"]
             /\ projectCache' = [projectCache EXCEPT ![p] = refreshed]
             /\ alias' = [alias EXCEPT ![p] = "none"]
             /\ stopSnapshot' = [stopSnapshot EXCEPT ![p] = Blank]
             /\ op' = [op EXCEPT ![p].curStart = Undef, ![p].effStop = Undef,
                                  ![p].retries = @ + 1]
             /\ UNCHANGED <<activeSession, started, snapshot, outcome>>
  /\ Fresh(p)
  /\ UNCHANGED <<clock, file, lastActivity, lastPersistedActivity, ops, ioFails,
                 startsOnly, seed, lastTick, storeVars>>

\* ------------------------------------------------------------------ Tracker.switchTask
\* now = new Date(); stop(now); start(path, task, { startTime: now })
BeginSwitch(p, t) ==
  /\ pc[p] = "idle"
  /\ activeSession[p].active
  /\ OpsLeft
  /\ ops' = ops + 1
  /\ startsOnly' = FALSE
  /\ pc' = [pc EXCEPT ![p] = "stop_load"]
  /\ op' = [op EXCEPT ![p] = [NoOp EXCEPT !.task = t, !.startTime = clock, !.at = clock,
                                          !.ret = "switch"]]
  /\ outcome' = [outcome EXCEPT ![p] = "none"]
  /\ UNCHANGED <<clock, file, lastActivity, activeSession, snapshot, stopSnapshot, projectCache,
                 alias, lastPersistedActivity, ioFails, stale, seed, lastTick, started, storeVars>>

\* ------------------------------------------------------------------ ticker and activity
\* a ticker without the idle gate
onTickIgnoresIdle(p) ==
  /\ pc[p] = "idle"
  /\ OpsLeft
  /\ ops' = ops + 1
  /\ IF activeSession[p].active
     THEN /\ lastTick' = [lastTick EXCEPT ![p] = clock]
          /\ persistLastActivity(p, clock)
     ELSE UNCHANGED <<lastTick, lastPersistedActivity, lastActivity>>
  /\ UNCHANGED <<clock, file, pc, activeSession, snapshot, stopSnapshot, projectCache,
                 alias, op, outcome, ioFails, stale, startsOnly, seed, started, storeVars>>

\* Tracker.onTick, fired by the one-second interval timer
onTick(p) ==
  /\ pc[p] = "idle"
  /\ OpsLeft
  /\ ops' = ops + 1
  /\ IF activeSession[p].active /\ ~(clock - lastTick[p] > IdleThresholdMs)
     THEN /\ lastTick' = [lastTick EXCEPT ![p] = clock]
          /\ persistLastActivity(p, clock)
     ELSE UNCHANGED <<lastTick, lastPersistedActivity, lastActivity>>
  /\ UNCHANGED <<clock, file, pc, activeSession, snapshot, stopSnapshot, projectCache,
                 alias, op, outcome, ioFails, stale, startsOnly, seed, started, storeVars>>

\* Tracker.touchActivity, called by the editor and window listeners
touchActivity(p) ==
  /\ pc[p] = "idle"
  /\ OpsLeft
  /\ ops' = ops + 1
  /\ lastTick' = [lastTick EXCEPT ![p] = clock]
  /\ persistLastActivity(p, clock)
  /\ UNCHANGED <<clock, file, pc, activeSession, snapshot, stopSnapshot, projectCache,
                 alias, op, outcome, ioFails, stale, startsOnly, seed, started, storeVars>>

\* ------------------------------------------------------------------ crash and Tracker.init
\* the window dies between two handlers: everything it held in memory is gone;
\* it is opened again
Crash(p) ==
  /\ pc[p] = "idle"
  /\ OpsLeft
  /\ ops' = ops + 1
  /\ startsOnly' = FALSE
  /\ pc' = [pc EXCEPT ![p] = "init"]
  /\ activeSession' = [activeSession EXCEPT ![p] = NoSession]
  /\ started' = [started EXCEPT ![p] = FALSE]
  /\ projectCache' = [projectCache EXCEPT ![p] = Blank]
  /\ op' = [op EXCEPT ![p] = NoOp]
  /\ outcome' = [outcome EXCEPT ![p] = "none"]
  /\ lastPersistedActivity' = [lastPersistedActivity EXCEPT ![p] = 0]
  /\ lastTick' = [lastTick EXCEPT ![p] = clock]
  /\ UNCHANGED <<clock, file, lastActivity, snapshot, stopSnapshot, alias, ioFails, stale, seed, storeVars>>

\* Tracker.init: read the shared last-activity key, loadSnapshots (the cache is
\* empty, so getProjectSnapshot reads the file), adopt a current as the active
\* session and, when a last-activity time is recorded, stop it at that time
InitLoad(p) ==
  /\ pc[p] = "init"
  /\ LET s == readProjectSnapshot(file, clock)
         adopt == HasCurrent(s)
         candidate == Max(s.current.start, Min(lastActivity, clock))
     IN /\ projectCache' = [projectCache EXCEPT ![p] = s]
        /\ activeSession' = [activeSession EXCEPT ![p] =
                               IF adopt THEN ActiveSessionOf(s.current.task, s.current.start)
                               ELSE NoSession]
        /\ IF adopt /\ lastActivity # 0
           THEN /\ pc' = [pc EXCEPT ![p] = "stop_load"]
                /\ op' = [op EXCEPT ![p] = [NoOp EXCEPT !.at = candidate]]
           ELSE /\ pc' = [pc EXCEPT ![p] = "idle"]
                /\ UNCHANGED op
  /\ lastPersistedActivity' = [lastPersistedActivity EXCEPT ![p] = lastActivity]
  /\ started' = [started EXCEPT ![p] = FALSE]
  /\ Fresh(p)
  /\ UNCHANGED <<clock, file, lastActivity, snapshot, stopSnapshot, alias, outcome,
                 ops, ioFails, startsOnly, seed, lastTick, storeVars>>

\* ------------------------------------------------------------------ specification
Next ==
  \/ Tick
  \/ \E p \in Procs, t \in Tasks : BeginStart(p, t)
  \/ \E p \in Procs : StartLoad(p)
  \/ \E p \in Procs : PromptCancel(p)
  \/ \E p \in Procs : PromptSetEnd(p)
  \/ \E p \in Procs : PromptRejectEnd(p)
  \/ \E p \in Procs : ResolveSaveRead(p)
  \/ \E p \in Procs : ResolveWrite(p)
  \/ \E p \in Procs : ResolveReload(p)
  \/ \E p \in Procs : StartSaveRead(p)
  \/ \E p \in Procs : StartWrite(p)
  \/ \E p \in Procs : StartConflict(p)
  \/ \E p \in Procs : StartVerify(p)
  \/ \E p \in Procs : BeginStop(p)
  \/ \E p \in Procs : StopWithoutSession(p)
  \/ \E p \in Procs : StopLoad(p)
  \/ \E p \in Procs : StopSaveRead(p)
  \/ \E p \in Procs : StopWrite(p)
  \/ \E p \in Procs : StopReload(p)
  \/ \E p \in Procs, t \in Tasks : BeginSwitch(p, t)
  \/ \E p \in Procs : Crash(p)
  \/ \E p \in Procs : InitLoad(p)

Spec == Init /\ [][Next]_vars

\* The same windows with the one-second ticker and the editor's activity
\* events running, on a project that has no snapshot file yet.  No entry is
\* left pending there, so the prompt and the resolution steps are not part
\* of this relation.
InitTicker == Init /\ seed = "new"

NextTicker ==
  \/ Tick
  \/ \E p \in Procs, t \in Tasks : BeginStart(p, t)
  \/ \E p \in Procs : StartLoad(p)
  \/ \E p \in Procs : StartSaveRead(p)
  \/ \E p \in Procs : StartWrite(p)
  \/ \E p \in Procs : StartConflict(p)
  \/ \E p \in Procs : StartVerify(p)
  \/ \E p \in Procs : BeginStop(p)
  \/ \E p \in Procs : StopWithoutSession(p)
  \/ \E p \in Procs : StopLoad(p)
  \/ \E p \in Procs : StopSaveRead(p)
  \/ \E p \in Procs : StopWrite(p)
  \/ \E p \in Procs : StopReload(p)
  \/ \E p \in Procs, t \in Tasks : BeginSwitch(p, t)
  \/ \E p \in Procs : onTick(p)
  \/ \E p \in Procs : touchActivity(p)
  \/ \E p \in Procs : Crash(p)
  \/ \E p \in Procs : InitLoad(p)

SpecTicker == InitTicker /\ [][NextTicker]_vars

\* ------------------------------------------------------------------ a stop against a busy file
\* Another process saves the snapshot it has just read through
\* StorageService.saveProjectSnapshot: the lock check passes, the content is
\* kept and lastModified becomes Date.now().
RewriteSnapshot(w) ==
  /\ pc[w] = "idle"
  /\ file.state = "ok"
  /\ file.snap.lastModified # clock
  /\ atomicWrite(w, Serializable(readProjectSnapshot(file, clock), clock))
  /\ UNCHANGED <<clock, lastActivity, pc, activeSession, snapshot, stopSnapshot, projectCache,
                 alias, op, outcome, lastPersistedActivity, ops, startsOnly, seed, lastTick,
                 started, storeVars>>

\* Window p starts and stops timers while process q keeps saving the snapshot.
NextStopRetry ==
  \/ Tick
  \/ \E t \in Tasks : BeginStart("p", t)
  \/ StartLoad("p")
  \/ StartSaveRead("p")
  \/ StartWrite("p")
  \/ StartConflict("p")
  \/ StartVerify("p")
  \/ BeginStop("p")
  \/ StopLoad("p")
  \/ StopSaveRead("p")
  \/ StopWrite("p")
  \/ StopReload("p")
  \/ RewriteSnapshot("q")

SpecStopRetry == InitTicker /\ [][NextStopRetry]_vars

\* ------------------------------------------------------------------ the ticker across idle periods
\* the latest time the clock reaches after idle periods
MaxIdleClock == MaxClock + 2 * (IdleThresholdMs + TickMs)

\* Nothing happens in any window for longer than idleThreshold (Date.now()
\* read by the next handler is that much later).
IdleGap ==
  /\ clock + IdleThresholdMs + TickMs <= MaxIdleClock
  /\ clock' = clock + IdleThresholdMs + TickMs
  /\ UNCHANGED <<file, lastActivity, pc, activeSession, snapshot, stopSnapshot, projectCache,
                 alias, op, outcome, lastPersistedActivity, ops, ioFails, stale, startsOnly,
                 seed, lastTick, started, storeVars>>

\* Window p starts and stops timers; the interval timer and the activity
\* listeners of both windows fire, between idle periods.
NextIdle ==
  \/ Tick
  \/ IdleGap
  \/ \E t \in Tasks : BeginStart("p", t)
  \/ StartLoad("p")
  \/ StartSaveRead("p")
  \/ StartWrite("p")
  \/ StartVerify("p")
  \/ BeginStop("p")
  \/ StopLoad("p")
  \/ StopSaveRead("p")
  \/ StopWrite("p")
  \/ \E p \in Procs : onTick(p)
  \/ \E p \in Procs : touchActivity(p)

SpecIdle == InitTicker /\ [][NextIdle]_vars

\* ------------------------------------------------------------------ the store on its own
\* StorageService.recordActivity, with persistActivityLog (whose atomicWrite
\* swallows a failed write)
recordActivity(projectId, projectName, date) ==
  /\ storeOps < MaxStoreOps
  /\ storeOps' = storeOps + 1
  /\ activityLog' = RecordedEntries(activityLog, projectId, projectName, date)
  /\ IF activityLog' # activityLog
     THEN activityFile' \in {activityLog', activityFile}
     ELSE UNCHANGED activityFile
  /\ storeOp' = [kind |-> "record", args |-> <<projectId, projectName, date>>,
                 before |-> activityLog, result |-> activityLog', failed |-> FALSE]
  /\ UNCHANGED <<index, indexFile, disk, storeCache, peerLog, readStack, trackerVars>>

\* the report asking StorageService.getProjectsTouchedBetween for a range
buildReport(startDate, endDate) ==
  /\ storeOps < MaxStoreOps
  /\ storeOps' = storeOps + 1
  /\ storeOp' = [kind |-> "touched", args |-> <<startDate, endDate>>,
                 before |-> activityLog,
                 result |-> getProjectsTouchedBetween(activityLog, startDate, endDate),
                 failed |-> FALSE]
  /\ UNCHANGED <<activityLog, activityFile, index, indexFile, disk, storeCache, peerLog, readStack, trackerVars>>

\* StorageService.upsertProjectMetadata, with persistIndex
upsertProjectMetadata(path, displayName) ==
  /\ storeOps < MaxStoreOps
  /\ storeOps' = storeOps + 1
  /\ index' = UpsertedProjects(index, path, displayName)
  /\ IF index' # index
     THEN indexFile' \in {index', indexFile}
     ELSE UNCHANGED indexFile
  /\ storeOp' = [kind |-> "upsert", args |-> <<path, displayName>>,
                 before |-> index, result |-> index', failed |-> FALSE]
  /\ UNCHANGED <<activityLog, activityFile, disk, storeCache, peerLog, readStack, trackerVars>>

\* the tickeroo.deleteProject command: look the project up, ask the user, and
\* call StorageService.deleteProjectSnapshot (which ignores a failed delete)
deleteProject(projectId, confirmed) ==
  /\ storeOps < MaxStoreOps
  /\ storeOps' = storeOps + 1
  /\ LET entry == findProjectById(index, projectId)
     IN IF entry = 0 \/ ~confirmed
        THEN /\ storeOp' = [kind |-> "delete", args |-> <<projectId, confirmed>>,
                            before |-> index, result |-> FALSE, failed |-> FALSE]
             /\ UNCHANGED <<disk, storeCache>>
        ELSE LET path == index[entry].path
             IN /\ \E deleted \in BOOLEAN :
                     /\ disk' = [disk EXCEPT ![path].main =
                                   IF deleted THEN MissingFile ELSE @]
                     /\ storeOp' = [kind |-> "delete", args |-> <<projectId, confirmed>>,
                                    before |-> index, result |-> TRUE,
                                    failed |-> ~deleted]
                /\ storeCache' = [storeCache EXCEPT ![path] = Blank]
  /\ UNCHANGED <<activityLog, activityFile, index, indexFile, peerLog, readStack, trackerVars>>

\* StorageService.atomicWrite on a project's snapshot file
atomicWriteFile(path, bytes, f) ==
  /\ storeOps < MaxStoreOps
  /\ storeOps' = storeOps + 1
  /\ disk' = [disk EXCEPT ![path] = AtomicWritten(disk[path], bytes, f)]
  /\ storeOp' = [kind |-> "write", args |-> <<path, bytes>>, before |-> disk[path],
                 result |-> disk'[path], failed |-> StepFailed(disk[path], f)]
  /\ UNCHANGED <<activityLog, activityFile, index, indexFile, storeCache, peerLog, readStack, trackerVars>>

\* StorageService.refreshProjectSnapshot: readProjectSnapshot, then the cache
refreshProjectSnapshot(path) ==
  /\ storeOps < MaxStoreOps
  /\ storeOps' = storeOps + 1
  /\ storeCache' = [storeCache EXCEPT ![path] = readProjectSnapshot(disk[path].main, clock)]
  /\ storeOp' = [kind |-> "read", args |-> <<path>>, before |-> disk[path],
                 result |-> storeCache'[path], failed |-> FALSE]
  /\ UNCHANGED <<activityLog, activityFile, index, indexFile, disk, peerLog, readStack, trackerVars>>

InitStore == Init /\ seed = "new"

NextStore ==
  \/ \E projectId \in ProjectIds, projectName \in Names, date \in DateStrings :
       recordActivity(projectId, projectName, date)
  \/ \E startDate \in DateStrings, endDate \in DateStrings : buildReport(startDate, endDate)
  \/ \E path \in Paths, displayName \in Names \cup {NoName} :
       upsertProjectMetadata(path, displayName)
  \/ \E projectId \in ProjectIds, confirmed \in BOOLEAN : deleteProject(projectId, confirmed)
  \/ \E path \in Paths, bytes \in StoreSnapshots, f \in Faults : atomicWriteFile(path, bytes, f)
  \/ \E path \in Paths : refreshProjectSnapshot(path)

SpecStore == InitStore /\ [][NextStore]_vars

\* ------------------------------------------------------------------ saving a snapshot
\* snapshots that were never persisted (no lastModified)
NewSnapshots == {[EmptySnapshot(Undef) EXCEPT !.lastTask = t] : t \in Tasks}

\* StorageService.saveProjectSnapshot: the lock comparison against a fresh
\* read, atomicWrite (which swallows the failure of its steps), the cache entry
saveProjectSnapshot(path, snap, f) ==
  /\ storeOps < MaxStoreOps
  /\ storeOps' = storeOps + 1
  /\ LET currentOnDisk == readProjectSnapshot(disk[path].main, clock)
         serializable == Serializable(snap, clock)
     IN IF SnapshotConflict(snap, currentOnDisk)
        THEN /\ storeOp' = [kind |-> "save", args |-> <<path, snap>>, before |-> disk[path],
                            result |-> "SNAPSHOT_CONFLICT", failed |-> FALSE]
             /\ UNCHANGED <<disk, storeCache>>
        ELSE /\ disk' = [disk EXCEPT ![path] = AtomicWritten(disk[path], serializable, f)]
             /\ storeCache' = [storeCache EXCEPT ![path] = serializable]
             /\ storeOp' = [kind |-> "save", args |-> <<path, snap>>, before |-> disk[path],
                            result |-> "returned", failed |-> StepFailed(disk[path], f)]
  /\ UNCHANGED <<activityLog, activityFile, index, indexFile, peerLog, readStack, trackerVars>>

\* a caller takes the project's snapshot from the cache, sets lastTask and
\* saves it (what the tracker's handlers do with the snapshot they loaded)
saveCachedSnapshot(path, task, f) ==
  /\ storeCache[path] # Blank
  /\ saveProjectSnapshot(path, [storeCache[path] EXCEPT !.lastTask = task], f)

NextSave ==
  \/ \E path \in Paths, snap \in NewSnapshots, f \in Faults : saveProjectSnapshot(path, snap, f)
  \/ \E path \in Paths, task \in Tasks, f \in Faults : saveCachedSnapshot(path, task, f)
  \/ \E path \in Paths : refreshProjectSnapshot(path)

SpecSave == InitStore /\ [][NextSave]_vars

\* ------------------------------------------------------------------ stopping on a later day
\* the start and stop times tried, in ticks: up to three and a half days
MaxStopTicks == 7

StopTimes == {k * TickMs : k \in 0..MaxStopTicks}

\* stopTimerForEntry's mutation applied to the snapshot that Tracker.start
\* leaves for a timer started at `start`, stopped at stopTime
stopTimerForEntry(task, start, stopTime) ==
  /\ storeOps < MaxStoreOps
  /\ storeOps' = storeOps + 1
  /\ LET running == StartMutation(EmptySnapshot(start), task, start)
     IN storeOp' = [kind |-> "stop", args |-> <<task, start, stopTime>>,
                    before |-> running, result |-> StopMutation(running, stopTime),
                    failed |-> FALSE]
  /\ UNCHANGED <<activityLog, activityFile, index, indexFile, disk, storeCache, peerLog,
                 readStack, trackerVars>>

NextStopDays ==
  \E task \in Tasks, start \in StopTimes, stopTime \in StopTimes :
    stopTimerForEntry(task, start, stopTime)

SpecStopDays == InitStore /\ [][NextStopDays]_vars

\* ------------------------------------------------------------------ reading a legacy file
\* how deep the model follows readProjectSnapshot calling itself
MaxReadDepth == 3

\* the project lists a legacy aggregate file (TimeTrackerData.projects) holds
LegacyLists == {<<"/x">>, <<"/y">>, <<"/x", "/y">>, <<"/y", "/x">>}

\* a file in the legacy aggregate format, listing `projects` (no days, no current)
LegacyFile(projects) ==
  [state |-> "legacy", snap |-> EmptySnapshot(Undef), projects |-> projects]

\* buildLegacyMigrations: the snapshot built for a listed project
MigrationSnapshot == [EmptySnapshot(Undef) EXCEPT !.current = NullCurrent]

\* a readProjectSnapshot call that has read the file of `path`: the migrations
\* it still has to run, and whether it waits inside saveProjectSnapshot
ReadFrame(path) ==
  [path |-> path,
   bytes |-> disk[path].main,
   todo |-> IF disk[path].main.state = "legacy" THEN disk[path].main.projects ELSE <<>>,
   phase |-> "read"]

\* what the readProjectSnapshot call of a frame returns
ReadResult(frame) ==
  IF frame.bytes.state = "legacy"
  THEN IF \E i \in DOMAIN frame.bytes.projects : frame.bytes.projects[i] = frame.path
       THEN MigrationSnapshot
       ELSE EmptySnapshot(Undef)
  ELSE readProjectSnapshot(frame.bytes, clock)

\* the extension's earlier version (writeData) left its aggregate file in the
\* project's .vscode folder
writeLegacyData(path, projects) ==
  /\ readStack = <<>>
  /\ storeOps < MaxStoreOps
  /\ storeOps' = storeOps + 1
  /\ disk' = [disk EXCEPT ![path].main = LegacyFile(projects)]
  /\ storeOp' = [kind |-> "legacy", args |-> <<path, projects>>, before |-> disk[path],
                 result |-> disk'[path], failed |-> FALSE]
  /\ UNCHANGED <<activityLog, activityFile, index, indexFile, storeCache, peerLog, readStack,
                 trackerVars>>

\* refreshProjectSnapshot calls readProjectSnapshot, which reads the file
beginRead(path) ==
  /\ readStack = <<>>
  /\ storeOps < MaxStoreOps
  /\ storeOps' = storeOps + 1
  /\ readStack' = <<ReadFrame(path)>>
  /\ storeOp' = [kind |-> "reading", args |-> <<path>>, before |-> disk[path],
                 result |-> <<>>, failed |-> FALSE]
  /\ UNCHANGED <<activityLog, activityFile, index, indexFile, disk, storeCache, peerLog,
                 trackerVars>>

\* the migration loop of readProjectSnapshot: upsertProjectMetadata for the
\* next listed project, then saveProjectSnapshot, whose first statement is
\* readProjectSnapshot of that project
migrateNext ==
  /\ readStack # <<>>
  /\ Len(readStack) < MaxReadDepth
  /\ LET top == Len(readStack)
         frame == readStack[top]
         path == Head(frame.todo)
     IN /\ frame.phase = "read"
        /\ frame.todo # <<>>
        /\ index' = UpsertedProjects(index, path, NoName)
        /\ IF index' # index
           THEN indexFile' \in {index', indexFile}
           ELSE UNCHANGED indexFile
        /\ readStack' = Append([readStack EXCEPT ![top].phase = "save"], ReadFrame(path))
  /\ UNCHANGED <<activityLog, activityFile, disk, storeCache, storeOp, storeOps, peerLog,
                 trackerVars>>

\* an inner readProjectSnapshot returns to saveProjectSnapshot: the lock
\* comparison (the migrated snapshot has no lastModified, so it never throws),
\* atomicWrite (which may fail silently), the cache entry; then
\* ingestActivityFromSnapshot (the migrated snapshot has no days) and the next
\* round of the loop
readReturnsToSave ==
  /\ Len(readStack) > 1
  /\ LET top == Len(readStack)
         frame == readStack[top]
         caller == readStack[top - 1]
         path == frame.path
         serializable == Serializable(MigrationSnapshot, clock)
     IN /\ frame.phase = "read"
        /\ frame.todo = <<>>
        /\ ~SnapshotConflict(MigrationSnapshot, ReadResult(frame))
        /\ \E landed \in BOOLEAN :
             disk' = [disk EXCEPT ![path].main = IF landed THEN FileOf(serializable) ELSE @]
        /\ storeCache' = [storeCache EXCEPT ![path] = serializable]
        /\ readStack' = [SubSeq(readStack, 1, top - 1) EXCEPT
                           ![top - 1].phase = "read",
                           ![top - 1].todo = Tail(caller.todo)]
  /\ UNCHANGED <<activityLog, activityFile, index, indexFile, storeOp, storeOps, peerLog,
                 trackerVars>>

\* the outermost readProjectSnapshot returns and refreshProjectSnapshot puts
\* its result into the cache
readReturns ==
  /\ Len(readStack) = 1
  /\ readStack[1].phase = "read"
  /\ readStack[1].todo = <<>>
  /\ readStack' = <<>>
  /\ storeCache' = [storeCache EXCEPT ![readStack[1].path] = ReadResult(readStack[1])]
  /\ storeOp' = [kind |-> "read", args |-> <<readStack[1].path>>, before |-> disk[readStack[1].path],
                 result |-> ReadResult(readStack[1]), failed |-> FALSE]
  /\ UNCHANGED <<activityLog, activityFile, index, indexFile, disk, storeOps, peerLog,
                 trackerVars>>

NextLegacy ==
  \/ \E path \in Paths, projects \in LegacyLists : writeLegacyData(path, projects)
  \/ \E path \in Paths : beginRead(path)
  \/ migrateNext
  \/ readReturnsToSave
  \/ readReturns

SpecLegacy == InitStore /\ [][NextLegacy]_vars

\* ------------------------------------------------------------------ the project index
\* StorageService.updateProjectName, with persistIndex
updateProjectName(projectId, name) ==
  /\ storeOps < MaxStoreOps
  /\ storeOps' = storeOps + 1
  /\ index' = RenamedProjects(index, projectId, name)
  /\ IF index' # index
     THEN indexFile' \in {index', indexFile}
     ELSE UNCHANGED indexFile
  /\ storeOp' = [kind |-> "rename", args |-> <<projectId, name>>,
                 before |-> index, result |-> index', failed |-> FALSE]
  /\ UNCHANGED <<activityLog, activityFile, disk, storeCache, peerLog, readStack, trackerVars>>

\* StorageService.updateProjectPath, with persistIndex (run whenever the entry
\* is found, also when the path is the one it has)
updateProjectPath(projectId, newPath) ==
  /\ storeOps < MaxStoreOps
  /\ storeOps' = storeOps + 1
  /\ index' = MovedProjects(index, projectId, newPath)
  /\ IF findProjectById(index, projectId) # 0
     THEN indexFile' \in {index', indexFile}
     ELSE UNCHANGED indexFile
  /\ storeOp' = [kind |-> "move", args |-> <<projectId, newPath>>,
                 before |-> index, result |-> index', failed |-> FALSE]
  /\ UNCHANGED <<activityLog, activityFile, disk, storeCache, peerLog, readStack, trackerVars>>

NextIndex ==
  \/ \E path \in Paths, displayName \in Names \cup {NoName} :
       upsertProjectMetadata(path, displayName)
  \/ \E projectId \in ProjectIds, name \in Names : updateProjectName(projectId, name)
  \/ \E projectId \in ProjectIds, newPath \in Paths : updateProjectPath(projectId, newPath)

SpecIndex == InitStore /\ [][NextIndex]_vars

\* ------------------------------------------------------------------ two processes, one activity log
\* StorageService.init of the second process: loadActivityLog reads the file
\* into its own activityLog
loadActivityLog ==
  /\ storeOps < MaxStoreOps
  /\ storeOps' = storeOps + 1
  /\ peerLog' = activityFile
  /\ storeOp' = [kind |-> "load", args |-> <<>>, before |-> peerLog, result |-> peerLog',
                 failed |-> FALSE]
  /\ UNCHANGED <<activityLog, activityFile, index, indexFile, disk, storeCache, readStack, trackerVars>>

\* StorageService.recordActivity in the second process, with persistActivityLog
recordActivityPeer(projectId, projectName, date) ==
  /\ storeOps < MaxStoreOps
  /\ storeOps' = storeOps + 1
  /\ peerLog' = RecordedEntries(peerLog, projectId, projectName, date)
  /\ IF peerLog' # peerLog
     THEN activityFile' \in {peerLog', activityFile}
     ELSE UNCHANGED activityFile
  /\ storeOp' = [kind |-> "record", args |-> <<projectId, projectName, date>>,
                 before |-> peerLog, result |-> peerLog', failed |-> FALSE]
  /\ UNCHANGED <<activityLog, index, indexFile, disk, storeCache, readStack, trackerVars>>

NextLogs ==
  \/ \E projectId \in ProjectIds, projectName \in Names, date \in DateStrings :
       recordActivity(projectId, projectName, date)
  \/ loadActivityLog
  \/ \E projectId \in ProjectIds, projectName \in Names, date \in DateStrings :
       recordActivityPeer(projectId, projectName, date)

SpecLogs == InitStore /\ [][NextLogs]_vars


\* ------------------------------------------------------------------ vocabulary of the claims
\* where a window stands right before saveProjectSnapshot reads the file
SaveReadPcs == {"res_save", "start_save", "stop_save"}

\* where a window stands right before saveProjectSnapshot's atomicWrite
WritePcs == {"res_write", "start_write", "stop_write"}

\* where a window stands after saveProjectSnapshot threw SNAPSHOT_CONFLICT
ConflictPcs == {"res_reload", "start_conflict", "stop_reload"}

ConflictPcOf(at) ==
  IF at = "res_save" THEN "res_reload"
  ELSE IF at = "start_save" THEN "start_conflict"
  ELSE "stop_reload"

\* the snapshot window p hands to saveProjectSnapshot
SavedSnapshot(p) == IF pc[p] \in {"stop_save", "stop_write"} THEN stopSnapshot[p] ELSE snapshot[p]

\* the step taken is window p's atomicWrite, and the bytes landed
Landed(p) == pc[p] \in WritePcs /\ pc'[p] # pc[p] /\ ioFails' = ioFails

\* all entries of a snapshot, as a set of <<day record, entry>> positions
EntryLocs(s) == {loc \in (1..Len(s.days)) \X (1..3 * MaxOps + 1) : loc[2] <= Len(s.days[loc[1]].entries)}

EntryAt(s, loc) == s.days[loc[1]].entries[loc[2]]

PendingLocs(s) == {loc \in EntryLocs(s) : Incomplete(EntryAt(s, loc))}

RECURSIVE SumFinalized(_)
SumFinalized(entries) ==
  IF entries = <<>> THEN 0
  ELSE (IF Incomplete(Head(entries)) THEN 0 ELSE Head(entries).seconds) + SumFinalized(Tail(entries))

\* ------------------------------------------------------------------ C1
\* C1: when only Start operations were begun on a project whose snapshot had no
\* current (and every file write landed), at most one window ends with an
\* established in-memory active session.
C1_AtMostOneStartSucceeds ==
  (startsOnly /\ ioFails = 0) => ~(\A p \in Procs : activeSession[p].active)

\* ------------------------------------------------------------------ C2
\* C2: a saveProjectSnapshot whose snapshot carries a lastModified that differs
\* from the lastModified of the snapshot on disk fails with SNAPSHOT_CONFLICT,
\* and that failing call changes neither the file nor the storage cache.
C2_MismatchAlwaysConflicts ==
  [][\A p \in Procs :
       (/\ pc[p] \in SaveReadPcs
        /\ pc'[p] # pc[p]
        /\ file.state = "ok"
        /\ SavedSnapshot(p).lastModified # Undef
        /\ file.snap.lastModified # SavedSnapshot(p).lastModified)
       => (/\ pc'[p] = ConflictPcOf(pc[p])
           /\ file' = file
           /\ projectCache'[p] = projectCache[p])]_vars

\* a save was refused because another window's write changed the file's lastModified
C2_Witness ==
  \E p \in Procs :
    /\ pc[p] = "start_conflict"
    /\ file.state = "ok"
    /\ file.snap.lastModified # snapshot[p].lastModified

\* ------------------------------------------------------------------ C3
\* C3: no lost update: a window's write never lands on the file when another
\* window's write landed after the window read the snapshot it is saving.
C3_NoLostUpdate ==
  [][\A p \in Procs : Landed(p) => ~stale[p]]_vars

\* ------------------------------------------------------------------ C4
\* C4: while the project has no snapshot file (so nobody has written it), no
\* save of a snapshot read from it is refused with SNAPSHOT_CONFLICT.
C4_FirstWriteNeverConflicts ==
  \A p \in Procs : pc[p] \in ConflictPcs => file.state = "ok"

\* ------------------------------------------------------------------ C5
\* C5: round trip: after the only window that ever acted saved its started
\* snapshot and the save returned normally, reading the project back yields
\* the days, current and lastTask of the snapshot saved.
C5_RoundTrip ==
  \A p \in Procs :
    (pc[p] = "start_verify" /\ ops = 1)
    => LET back == readProjectSnapshot(file, clock)
       IN /\ back.days = snapshot[p].days
          /\ back.current = snapshot[p].current
          /\ back.lastTask = snapshot[p].lastTask

\* ------------------------------------------------------------------ C6
\* C6: every write that lands on an existing file, by a window that read the
\* file after the last write of any other window, leaves a lastModified
\* strictly greater than the one the file had before.
C6_LastModifiedAdvances ==
  [][\A p \in Procs :
       (Landed(p) /\ ~stale[p] /\ file.state = "ok")
       => file'.snap.lastModified > file.snap.lastModified]_vars

\* ------------------------------------------------------------------ C7
\* C7: in every persisted snapshot with a current there is exactly one entry
\* without end, it lies in the day record of current.entryDay and its start is
\* current.start.
C7_RunningHasItsOneProvisionalEntry ==
  (file.state = "ok" /\ HasCurrent(file.snap) /\ ioFails = 0)
  => /\ Cardinality(PendingLocs(file.snap)) = 1
     /\ \A loc \in PendingLocs(file.snap) :
          /\ file.snap.days[loc[1]].day = file.snap.current.entryDay
          /\ EntryAt(file.snap, loc).start = file.snap.current.start

\* ------------------------------------------------------------------ C8
\* C8: no persisted snapshot holds more than one entry without end.
C8_AtMostOnePendingEntry ==
  file.state = "ok" => Cardinality(PendingLocs(file.snap)) <= 1

\* a window started a timer on the project that held an abandoned entry: the
\* abandoned entry was resolved, the only entry without end is the new session's
C8_Witness ==
  /\ seed = "abandoned"
  /\ file.state = "ok"
  /\ HasCurrent(file.snap)
  /\ Cardinality(EntryLocs(file.snap)) >= 2
  /\ Cardinality(PendingLocs(file.snap)) = 1
  /\ \E p \in Procs : activeSession[p].active

\* ------------------------------------------------------------------ C9
\* C9: on a project that started without a snapshot, every day record of the
\* persisted snapshot has totalSeconds equal to the sum of the seconds of its
\* entries that have an end.
C9_TotalsMatchFinalizedEntries ==
  (seed = "new" /\ file.state = "ok" /\ ioFails = 0)
  => \A d \in 1..Len(file.snap.days) :
       file.snap.days[d].totalSeconds = SumFinalized(file.snap.days[d].entries)

\* ------------------------------------------------------------------ C10
\* C10: every persisted entry with an end has end >= start, seconds >= 0 and
\* seconds = round((end - start) / 1000); and a stop requested at a time before
\* the session's start finalizes the session's entry at its start with 0 seconds.
C10_FinalizedEntriesWellFormed ==
  /\ file.state = "ok" =>
       \A loc \in EntryLocs(file.snap) :
         LET e == EntryAt(file.snap, loc)
         IN ~Incomplete(e) =>
              e.end >= e.start /\ e.seconds >= 0 /\ e.seconds = RoundSeconds(e.end - e.start)
  /\ \A p \in Procs :
       (pc[p] \in {"stop_save", "stop_write"} /\ op[p].at # Undef /\ op[p].at < op[p].curStart)
       => \E loc \in EntryLocs(stopSnapshot[p]) :
            LET e == EntryAt(stopSnapshot[p], loc)
            IN e.start = op[p].curStart /\ e.end = e.start /\ e.seconds = 0

\* a stop requested at a time before the start of the session found on disk is
\* about to be written
C10_Witness ==
  \E p \in Procs :
    /\ pc[p] = "stop_write"
    /\ op[p].at # Undef
    /\ op[p].at < op[p].curStart
    /\ op[p].effStop = op[p].curStart

\* ------------------------------------------------------------------ C11
\* the step is the landing write of a Stop command by window p, the second
\* operation on a project that had no snapshot; the first was p's Start
SoleStartThenStop(p) ==
  /\ seed = "new"
  /\ ops = 2
  /\ pc[p] = "stop_write"
  /\ pc'[p] = "idle"
  /\ op[p].ret = "idle"
  /\ op[p].at = Undef
  /\ ioFails' = 0

C12_MidnightSplit ==
  [][\A p \in Procs :
       (/\ seed = "new" /\ ops = 2 /\ ioFails = 0
        /\ pc[p] = "stop_load" /\ pc'[p] = "stop_save"
        /\ op[p].ret = "idle" /\ op[p].at = Undef
        /\ formatLocalDay(file.snap.current.start) < formatLocalDay(clock))
       => LET start == file.snap.current.start
              t == file.snap.current.task
              midnight == formatLocalDay(clock) * DayMs
              after == stopSnapshot'[p]
          IN /\ after.current.kind = "null"
             /\ Len(after.days) = 2
             /\ after.days[1].day = formatLocalDay(start)
             /\ after.days[2].day = formatLocalDay(clock)
             /\ Len(after.days[1].entries) = 1
             /\ Len(after.days[2].entries) = 1
             /\ LET e1 == after.days[1].entries[1]
                    e2 == after.days[2].entries[1]
                IN /\ e1.task = t /\ e1.start = start /\ e1.end = midnight
                   /\ e2.task = t /\ e2.start = midnight /\ e2.end = clock
                   /\ after.days[1].totalSeconds = e1.seconds
                   /\ after.days[1].tasks = [ZeroTasks EXCEPT ![t] = e1.seconds]
                   /\ after.days[2].totalSeconds = e2.seconds
                   /\ after.days[2].tasks = [ZeroTasks EXCEPT ![t] = e2.seconds]
                   /\ 1000 * (e1.seconds + e2.seconds) <= (clock - start) + 500
                   /\ (clock - start) + 500 < 1000 * (e1.seconds + e2.seconds) + 1000]_vars

\* ------------------------------------------------------------------ C13
\* C13: a Start whose first read of the project finds current set returns at
\* once with the "already running" warning: the step leaves the file (current,
\* days, lastTask) and every window's in-memory session as they were.
C13_StartOnRunningRejected ==
  [][\A p \in Procs :
       (/\ pc[p] = "start_load"
        /\ pc'[p] # "start_load"
        /\ file.state = "ok"
        /\ file.snap.current.kind = "set")
       => (/\ pc'[p] = "idle"
           /\ outcome'[p] = "already"
           /\ file' = file
           /\ activeSession' = activeSession)]_vars

\* a window that holds the running session invoked Start again and was turned
\* away: its session is still the one on disk
C13_Witness ==
  \E p \in Procs :
    /\ pc[p] = "idle"
    /\ outcome[p] = "already"
    /\ activeSession[p].active
    /\ file.state = "ok"
    /\ file.snap.current.kind = "set"
    /\ file.snap.current.start = activeSession[p].start

\* ------------------------------------------------------------------ C14
\* C14: in the snapshot a Start writes to set current, the only entry without
\* end is the provisional entry of the session being started (it lies in the
\* day record of current.entryDay and starts at current.start); and when the
\* user cancels the prompt for a pending entry, Start returns leaving the file
\* and the window's in-memory session as they were.
C14_StartBlockedByPendingEntry ==
  [][\A p \in Procs :
       /\ (pc[p] = "start_write" /\ pc'[p] = "start_verify" /\ ioFails' = ioFails)
          => (/\ file'.snap.current.kind = "set"
              /\ file'.snap.current.start = op[p].startTime
              /\ \A loc \in EntryLocs(file'.snap) :
                   EntryAt(file'.snap, loc).end = Undef
                   => (/\ EntryAt(file'.snap, loc).start = op[p].startTime
                       /\ file'.snap.days[loc[1]].day = file'.snap.current.entryDay))
       /\ (pc[p] = "prompt" /\ pc'[p] = "idle")
          => (/\ outcome'[p] = "cancelled"
              /\ file' = file
              /\ activeSession'[p] = activeSession[p])]_vars

\* on the project that held an abandoned entry, one window was asked for its
\* end time and cancelled; the other resolved it and has now written its own
\* session: two entries, the only one without end being the new session's
C14_Witness ==
  /\ seed = "abandoned"
  /\ \E p \in Procs :
       /\ pc[p] = "start_verify"
       /\ file.state = "ok"
       /\ file.snap.current.kind = "set"
       /\ file.snap.current.start = op[p].startTime
       /\ Cardinality(EntryLocs(file.snap)) >= 2
       /\ Cardinality(PendingLocs(file.snap)) = 1
  /\ \E q \in Procs : pc[q] = "idle" /\ outcome[q] = "cancelled"

\* ------------------------------------------------------------------ C15
\* where a Start stands once the user has supplied an end time
AfterPromptPcs ==
  {"res_save", "res_write", "res_reload", "start_save", "start_write", "start_conflict", "start_verify"}

\* C15: with one window acting and every write landing, the Start that found a
\* pending entry and was given a valid end time for it returns with current set
\* to the requested task on disk and its in-memory session established, and
\* never went through a SNAPSHOT_CONFLICT.
C15_ResolveThenStartInOneCall ==
  [][\A p \in Procs :
       (/\ seed = "abandoned"
        /\ ops = 1
        /\ ioFails' = 0
        /\ pc[p] \in AfterPromptPcs
        /\ pc'[p] = "idle")
       => (/\ pc[p] \notin ConflictPcs
           /\ file'.snap.current.kind = "set"
           /\ file'.snap.current.task = op[p].task
           /\ activeSession'[p].active
           /\ activeSession'[p].task = op[p].task)]_vars

\* ------------------------------------------------------------------ C16
\* C16: an end time earlier than the pending entry's start is never recorded:
\* the input is refused and the snapshot in memory, the cache and the file stay
\* as they were; an accepted end time finalizes exactly one pending entry, with
\* end >= start, seconds = round((end - start) / 1000), hence 0 when the end
\* equals the start, and adds those seconds to the entry's day totals; the
\* file is not touched by the finalization itself.
C16_ManualEndValidated ==
  [][\A p \in Procs :
       /\ (pc[p] = "prompt" /\ pc'[p] = "res_save")
          => (/\ file' = file
              /\ Len(snapshot'[p].days) = Len(snapshot[p].days)
              /\ \E loc \in PendingLocs(snapshot[p]) :
                   LET e == EntryAt(snapshot[p], loc)
                       f == EntryAt(snapshot'[p], loc)
                       rec == snapshot[p].days[loc[1]]
                       rec2 == snapshot'[p].days[loc[1]]
                   IN /\ f.task = e.task /\ f.start = e.start
                      /\ f.end # Undef
                      /\ f.end >= e.start
                      /\ 1000 * f.seconds <= (f.end - e.start) + 500
                      /\ (f.end - e.start) + 500 < 1000 * f.seconds + 1000
                      /\ (f.end = e.start => f.seconds = 0)
                      /\ rec2.totalSeconds = rec.totalSeconds + f.seconds
                      /\ rec2.tasks = [rec.tasks EXCEPT ![e.task] = @ + f.seconds]
                      /\ \A other \in EntryLocs(snapshot[p]) \ {loc} :
                           EntryAt(snapshot'[p], other) = EntryAt(snapshot[p], other)
                      /\ \A d \in (1..Len(snapshot[p].days)) \ {loc[1]} :
                           snapshot'[p].days[d] = snapshot[p].days[d])
       /\ (pc[p] = "prompt" /\ pc'[p] = "prompt" /\ outcome'[p] # outcome[p])
          => (/\ outcome'[p] = "invalid_end"
              /\ file' = file
              /\ snapshot' = snapshot
              /\ projectCache' = projectCache)]_vars

\* the user gave the pending entry its own start as end time: the entry is
\* finalized with 0 seconds and nothing is added to the day's totals
C16_Witness ==
  \E p \in Procs :
    /\ pc[p] = "res_save"
    /\ seed = "abandoned"
    /\ ops = 1
    /\ PendingLocs(snapshot[p]) = {}
    /\ \E loc \in EntryLocs(snapshot[p]) :
         /\ EntryAt(snapshot[p], loc).end = EntryAt(snapshot[p], loc).start
         /\ EntryAt(snapshot[p], loc).seconds = 0
         /\ snapshot[p].days[loc[1]].totalSeconds = 0

\* ------------------------------------------------------------------ C17
\* C17: when the Stop command of a window that holds a session reads a
\* snapshot without current, it returns without writing: the file (days,
\* totals, current) is what it was and the window's session is cleared; the
\* Stop command of a window without a session changes neither the file, nor
\* any session, nor the cache, nor the shared last-activity time.
C17_StopWithoutCurrentIsNoop ==
  [][\A p \in Procs :
       /\ (/\ pc[p] = "stop_load"
           /\ pc'[p] # "stop_load"
           /\ op[p].ret = "idle"
           /\ activeSession[p].active
           /\ (file.state = "missing" \/ file.snap.current.kind # "set"))
          => (/\ pc'[p] = "idle"
              /\ outcome'[p] = "noop"
              /\ file' = file
              /\ activeSession'[p] = NoSession)
       /\ (pc[p] = "idle" /\ ~activeSession[p].active
           /\ ops' = ops + 1 /\ pc' = pc /\ outcome'[p] = "no_session")
          => (/\ file' = file
              /\ activeSession' = activeSession
              /\ projectCache' = projectCache
              /\ lastActivity' = lastActivity)]_vars

\* a window's Stop found the session it held already stopped by the other
\* window: nothing written, its session dropped
C17_Witness ==
  \E p \in Procs :
    /\ pc[p] = "idle"
    /\ outcome[p] = "noop"
    /\ ~activeSession[p].active
    /\ ~stale[p]
    /\ file.state = "ok"
    /\ file.snap.current.kind = "null"
    /\ \E q \in Procs \ {p} : outcome[q] = "stopped"

\* ------------------------------------------------------------------ C18
\* on a new project one session was started, the other window adopted it at
\* start-up, and both windows have run Stop on it to the end (every write
\* landed)
BothStoppedSameSession ==
  /\ seed = "new"
  /\ ioFails = 0
  /\ ops = 3
  /\ \A p \in Procs : pc[p] = "idle" /\ outcome[p] \in {"stopped", "noop"}

\* C18: after two windows that both held the same running session have both
\* run Stop, under every interleaving, the persisted snapshot has current
\* cleared and no entry without end; the session is recorded once (one entry,
\* or the two parts of a split at midnight, in different day records, the
\* second starting where the first ends), and every day's totalSeconds and
\* task total hold the seconds of that day's entry exactly once.
C18_ConcurrentStopsCountOnce ==
  BothStoppedSameSession
  => /\ file.state = "ok"
     /\ file.snap.current.kind = "null"
     /\ \A loc \in EntryLocs(file.snap) : EntryAt(file.snap, loc).end # Undef
     /\ Len(file.snap.days) \in {1, 2}
     /\ \A d \in 1..Len(file.snap.days) :
          /\ Len(file.snap.days[d].entries) = 1
          /\ file.snap.days[d].totalSeconds = file.snap.days[d].entries[1].seconds
          /\ file.snap.days[d].tasks =
               [ZeroTasks EXCEPT ![file.snap.days[d].entries[1].task] = file.snap.days[d].entries[1].seconds]
     /\ Len(file.snap.days) = 2
        => /\ file.snap.days[2].entries[1].start = file.snap.days[1].entries[1].end
           /\ file.snap.days[2].entries[1].task = file.snap.days[1].entries[1].task
           /\ file.snap.days[1].day < file.snap.days[2].day

\* both windows ran Stop on the session, one of them found it already stopped,
\* and the session's second is in the day's total once
C18_Witness ==
  /\ BothStoppedSameSession
  /\ \E p \in Procs : outcome[p] = "noop"
  /\ \E p \in Procs : outcome[p] = "stopped"
  /\ file.state = "ok"
  /\ Len(file.snap.days) = 1
  /\ file.snap.days[1].totalSeconds = 1

\* ------------------------------------------------------------------ C19
\* the step is the return of the start that switchTask called after its stop;
\* start returns normally on every path, so switchTask goes on to show
\* "switched to '<task>'"
SwitchReturnsNormally(p) ==
  /\ op[p].ret = "switch_start"
  /\ pc[p] # "idle"
  /\ pc'[p] = "idle"

\* C19: whenever switchTask returns reporting the switch (no file write having
\* failed), the project's current on disk and the window's in-memory session
\* have the new task.
C19_SwitchReportsOnlySuccess ==
  [][\A p \in Procs :
       (SwitchReturnsNormally(p) /\ ioFails' = 0)
       => (/\ file'.state = "ok"
           /\ file'.snap.current.kind = "set"
           /\ file'.snap.current.task = op[p].task
           /\ activeSession'[p].active
           /\ activeSession'[p].task = op[p].task)]_vars

\* ------------------------------------------------------------------ C20
\* C20: a window that at start-up finds current set on disk while the shared
\* last-activity time is no older than the idle threshold does not stop the
\* session: init returns without calling stop.
C20_InitKeepsFreshSession ==
  [][\A p \in Procs :
       (/\ pc[p] = "init"
        /\ pc'[p] # "init"
        /\ file.state = "ok"
        /\ file.snap.current.kind = "set"
        /\ lastActivity # 0
        /\ clock - lastActivity <= IdleThresholdMs)
       => (/\ pc'[p] = "idle"
           /\ file' = file)]_vars

\* ------------------------------------------------------------------ C21
\* C21: while a session is running on disk, a tick or an activity event writes
\* the shared last-activity timestamp only in the window whose own start
\* established that session; a window that adopted it at startup, or holds no
\* session at all, never writes it.
C21_OnlyOwnerWritesActivity ==
  [][\A p \in Procs :
       (/\ file.state = "ok"
        /\ HasCurrent(file.snap)
        /\ file' = file
        /\ pc[p] = "idle"
        /\ pc' = pc
        /\ lastActivity' # lastActivity
        /\ lastPersistedActivity'[p] # lastPersistedActivity[p])
       => (/\ started[p]
           /\ activeSession[p].start = file.snap.current.start)]_vars

\* ------------------------------------------------------------------ C22
\* C22: a start that establishes its session leaves the last-activity key at
\* its start time, and a stop whose snapshot write changes the file leaves it
\* at its effective stop time, however recently the window wrote the key.
C22_StartStopAlwaysWriteActivity ==
  [][\A p \in Procs :
       /\ (/\ pc[p] = "start_verify"
           /\ pc'[p] # pc[p]
           /\ outcome'[p] = "started")
          => lastActivity' = op[p].startTime
       /\ (/\ pc[p] = "stop_write"
           /\ pc'[p] # pc[p]
           /\ file' # file)
          => lastActivity' = op[p].effStop]_vars

\* ------------------------------------------------------------------ C23
\* the (date, projectId) pairs of a list of entries, in the list's order
ActivityKeys(entries) ==
  [i \in DOMAIN entries |-> <<entries[i].date, entries[i].projectId>>]

\* the last store operation recorded a pair the log already held
RecordedPresentPair ==
  /\ storeOp.kind = "record"
  /\ storeOp.args[3] # EmptyString
  /\ FindActivity(storeOp.before, Slice10(storeOp.args[3]), storeOp.args[1]) # 0

\* C23 (as the code has it): the activity log never holds two entries with the
\* same date and projectId, and recording a pair that is already present
\* keeps the number, the order and the (date, projectId) pairs of the entries;
\* the one thing it may change is the project name stored with that pair,
\* which becomes the name given in the call.
C23_RecordKeepsPairsAndRefreshesName ==
  /\ \A i, j \in DOMAIN activityLog :
       ActivityKeys(activityLog)[i] = ActivityKeys(activityLog)[j] => i = j
  /\ RecordedPresentPair =>
       LET existing == FindActivity(storeOp.before, Slice10(storeOp.args[3]), storeOp.args[1])
       IN /\ activityLog = storeOp.result
          /\ ActivityKeys(storeOp.result) = ActivityKeys(storeOp.before)
          /\ \A i \in DOMAIN storeOp.before :
               storeOp.result[i].projectName =
                 IF i = existing THEN storeOp.args[2] ELSE storeOp.before[i].projectName

\* a pair already in the log under another project name was recorded
C23_Witness ==
  /\ RecordedPresentPair
  /\ storeOp.result # storeOp.before
  /\ Len(storeOp.before) = 2

\* C23 (as stated): no two entries share date and projectId, and recording a
\* pair that is already present leaves the list of entries unchanged.
C23_RecordOfPresentPairChangesNothing ==
  /\ \A i, j \in DOMAIN activityLog :
       ActivityKeys(activityLog)[i] = ActivityKeys(activityLog)[j] => i = j
  /\ RecordedPresentPair => storeOp.result = storeOp.before

\* ------------------------------------------------------------------ C24
\* the rearrangements of a list of entries
Rearrangements(entries) ==
  {[i \in DOMAIN entries |-> entries[f[i]]] :
     f \in {g \in [DOMAIN entries -> DOMAIN entries] :
              \A i, j \in DOMAIN entries : g[i] = g[j] => i = j}}

\* C24: getProjectsTouchedBetween(start, end) returns exactly the ids of the
\* projects with at least one log entry dated d with start <= d <= end, both
\* ends included, and returns the same set for every order of the entries.
C24_TouchedBetweenIsInclusiveRange ==
  storeOp.kind = "touched" =>
    /\ storeOp.result =
         {id \in ProjectIds :
            \E i \in DOMAIN storeOp.before :
              /\ storeOp.before[i].projectId = id
              /\ storeOp.args[1].day <= storeOp.before[i].date.day
              /\ storeOp.before[i].date.day <= storeOp.args[2].day}
    /\ \A entries \in Rearrangements(storeOp.before) :
         getProjectsTouchedBetween(entries, storeOp.args[1], storeOp.args[2]) = storeOp.result

\* a range was asked for with one project logged on its last day and another
\* logged outside it
C24_Witness ==
  /\ storeOp.kind = "touched"
  /\ Len(storeOp.before) = 2
  /\ storeOp.before[1].projectId # storeOp.before[2].projectId
  /\ \E i \in DOMAIN storeOp.before :
       /\ storeOp.before[i].date.day = storeOp.args[2].day
       /\ storeOp.result = {storeOp.before[i].projectId}

\* ------------------------------------------------------------------ C25
\* C25: when the snapshot file cannot be parsed and the .bak file beside it
\* can, reading the snapshot returns what the .bak file holds.
C25_ReadFallsBackToBackup ==
  (/\ storeOp.kind = "read"
   /\ storeOp.before.main.state = "corrupt"
   /\ storeOp.before.bak.state = "ok")
  => storeOp.result = readProjectSnapshot(storeOp.before.bak, clock)

\* ------------------------------------------------------------------ C26
\* what the file shows at the moment of start's verification read: current
\* with the start and the task this start wrote, and an entry with that start
\* in the bucket of the entry day
DiskShowsStart(p) ==
  /\ file.state = "ok"
  /\ file.snap.current.kind = "set"
  /\ file.snap.current.start = op[p].startTime
  /\ file.snap.current.task = op[p].task
  /\ \E d \in DOMAIN file.snap.days :
       /\ file.snap.days[d].day = formatLocalDay(op[p].startTime)
       /\ \E e \in DOMAIN file.snap.days[d].entries :
            file.snap.days[d].entries[e].start = op[p].startTime

\* C26: start's last step sets the window's active session only if its read
\* after the write shows current.start and current.task as written and an
\* entry with that start in the entry-day bucket; the session it sets is the
\* one written; if the check fails, start reports the error and the window
\* has no active session.
C26_SessionOnlyAfterVerifiedRead ==
  [][\A p \in Procs :
       (pc[p] = "start_verify" /\ pc'[p] # pc[p]) =>
         /\ activeSession'[p].active =>
              /\ DiskShowsStart(p)
              /\ activeSession'[p] = ActiveSessionOf(op[p].task, op[p].startTime)
              /\ outcome'[p] = "started"
         /\ ~DiskShowsStart(p) =>
              /\ ~activeSession'[p].active
              /\ outcome'[p] = "verify_failed"]_vars

\* a start whose verification read did not show what it wrote has returned
C26_Witness ==
  \E p \in Procs :
    /\ pc[p] = "idle"
    /\ outcome[p] = "verify_failed"
    /\ ~activeSession[p].active

\* ------------------------------------------------------------------ C27
\* C27: after an atomicWrite in which the temp write, the backup copy, the
\* rename or the fallback copy failed, the target file holds its complete
\* previous content or the complete new content, and no .tmp file remains.
C27_FailedWriteLeavesOldOrNew ==
  (storeOp.kind = "write" /\ storeOp.failed) =>
    /\ storeOp.result.main \in {storeOp.before.main, FileOf(storeOp.args[2])}
    /\ storeOp.result.tmp = MissingFile

\* ------------------------------------------------------------------ C28
\* C28: after the user deleted a project, the index no longer holds it
\* (findProjectById and listProjects do not return it), its snapshot file is
\* gone and reading its snapshot gives the empty default.
C28_DeleteRemovesIndexEntryAndFile ==
  (storeOp.kind = "delete" /\ storeOp.result) =>
    LET projectId == storeOp.args[1]
        path == storeOp.before[findProjectById(storeOp.before, projectId)].path
    IN /\ findProjectById(index, projectId) = 0
       /\ projectId \notin listProjects(index)
       /\ disk[path].main = MissingFile
       /\ readProjectSnapshot(disk[path].main, clock) = EmptySnapshot(clock)

\* ------------------------------------------------------------------ C29
\* C29: a start whose snapshot write was refused with a conflict re-reads the
\* snapshot, drops its mutation, writes nothing and returns without an active
\* session: the file stays as the other writer left it.
C29_ConflictingStartWritesNothing ==
  [][\A p \in Procs :
       /\ (pc[p] = "start_save" /\ pc'[p] = "start_conflict") =>
            /\ file' = file
            /\ activeSession'[p] = activeSession[p]
       /\ (pc[p] = "start_conflict" /\ pc'[p] # pc[p]) =>
            /\ pc'[p] = "idle"
            /\ file' = file
            /\ snapshot'[p] = Blank
            /\ projectCache'[p] = readProjectSnapshot(file, clock)
            /\ ~activeSession'[p].active
            /\ outcome'[p] \in {"already", "retry"}]_vars

\* a start has returned from a conflict and found no timer running: the
\* other window's write had changed the file without leaving a current
C29_Witness ==
  \E p \in Procs :
    /\ pc[p] = "idle"
    /\ outcome[p] = "retry"
    /\ ~activeSession[p].active
    /\ file.state = "ok"
    /\ projectCache[p] = readProjectSnapshot(file, clock)

\* ------------------------------------------------------------------ C30
\* C30: when saving a resolution is refused with a conflict, nothing is
\* written, and start goes on from the snapshot it reads after the conflict:
\* its working snapshot is that read (with start's own mutation when the read
\* shows nothing pending and no timer), not the resolved stale one; whatever
\* the start writes later is its working snapshot.
C30_ConflictDiscardsStaleResolution ==
  [][\A p \in Procs :
       LET fresh == readProjectSnapshot(file, clock)
       IN /\ (pc[p] = "res_save" /\ pc'[p] = "res_reload") => file' = file
          /\ (pc[p] = "res_reload" /\ pc'[p] # pc[p]) =>
               /\ file' = file
               /\ pc'[p] = "prompt" => snapshot'[p] = fresh /\ projectCache'[p] = fresh
               /\ pc'[p] = "start_save" =>
                    snapshot'[p] = StartMutation(fresh, op[p].task, op[p].startTime)
               /\ pc'[p] = "idle" => snapshot'[p] = Blank /\ projectCache'[p] = fresh
               /\ pc'[p] \in {"prompt", "start_save", "idle"}
          /\ (pc[p] \in {"res_write", "start_write"} /\ pc'[p] # pc[p] /\ file' # file) =>
               file' = FileOf(Serializable(snapshot[p], op[p].newLm))]_vars

\* the save of a resolution has just been refused: the file was written by
\* the other window after this start read it
C30_Witness ==
  \E p \in Procs :
    /\ pc[p] = "res_reload"
    /\ stale[p]
    /\ file.state = "ok"
    /\ file.snap.lastModified # snapshot[p].lastModified
    /\ snapshot[p].days # file.snap.days

\* ------------------------------------------------------------------ C31
\* C31: a resolution that reaches the file leaves the provisional entry of a
\* live session alone: when the snapshot it writes has a current, the entry
\* that started at current.start is still without end.
C31_ResolutionSparesLiveEntry ==
  [][\A p \in Procs :
       (/\ pc[p] = "res_write"
        /\ pc'[p] # pc[p]
        /\ file' # file
        /\ HasCurrent(file'.snap))
       => \E loc \in PendingLocs(file'.snap) :
            EntryAt(file'.snap, loc).start = file'.snap.current.start]_vars

\* ------------------------------------------------------------------ C32
\* C32: starting from a project without snapshot and with every file write
\* succeeding, a persisted snapshot whose current is null has no entry
\* without end, whatever the interleaving of the windows' Start, Stop and
\* SwitchTask.
C32_NoPendingEntryWithoutCurrent ==
  (seed = "new" /\ ioFails = 0 /\ file.state = "ok" /\ ~HasCurrent(file.snap))
  => PendingLocs(file.snap) = {}

\* a stop has landed: the file has no current and holds a finalized entry
C32_Witness ==
  /\ seed = "new" /\ ioFails = 0 /\ file.state = "ok" /\ ~HasCurrent(file.snap)
  /\ \E loc \in EntryLocs(file.snap) : ~Incomplete(EntryAt(file.snap, loc))
  /\ \E p \in Procs : outcome[p] = "stopped" /\ pc[p] = "idle"

\* ------------------------------------------------------------------ C33
\* the number of consecutive conflicts after which a stop would have to give up
StopRetryCap == 1

\* C33: Stop's conflict handling is capped: once a stop has met StopRetryCap
\* consecutive conflicts whose reload still showed the same current.start, a
\* further such conflict does not send it round again.
C33_StopGivesUpAfterCappedConflicts ==
  [][\A p \in Procs :
       (pc[p] = "stop_reload" /\ op[p].retries >= StopRetryCap)
       => pc'[p] # "stop_load"]_vars

\* ------------------------------------------------------------------ C34
\* the window holds a session and more than idleThreshold has passed since its
\* last tick or activity
Idle(p) == activeSession[p].active /\ clock - lastTick[p] > IdleThresholdMs

\* C34: a tick of a window that is idle, or has no session, neither advances
\* lastTick nor writes the last-activity time; and an idle window stays idle,
\* tick after tick, while its session goes on and touchActivity is not called.
C34_IdleTickerPausesUntilActivity ==
  [][\A p \in Procs :
       /\ (onTick(p) /\ (Idle(p) \/ ~activeSession[p].active))
          => UNCHANGED <<lastTick, lastActivity, lastPersistedActivity>>
       /\ (Idle(p) /\ activeSession'[p] = activeSession[p] /\ ~touchActivity(p))
          => Idle(p)']_vars

\* window p has been idle over two idle periods, the ticks in between wrote
\* nothing: the last-activity time is still the one of the start
C34_Witness ==
  /\ Idle("p")
  /\ pc["p"] = "idle"
  /\ ops = MaxOps
  /\ clock - lastTick["p"] > 2 * IdleThresholdMs
  /\ lastActivity = lastTick["p"]
  /\ lastPersistedActivity["q"] = 0

\* ------------------------------------------------------------------ C35
\* the (date, projectId) pairs held by a list of entries
PairsOf(entries) == {ActivityKeys(entries)[i] : i \in DOMAIN entries}

\* C35: the activity log file only grows: every (date, projectId) pair the
\* file holds is still in the file after any step of any process.
C35_ActivityFileKeepsItsPairs ==
  [][PairsOf(activityFile) \subseteq PairsOf(activityFile')]_vars

\* ------------------------------------------------------------------ C36
\* C36: no two entries of the project index have the same id.
C36_IndexIdsAreUnique ==
  \A i \in DOMAIN index, j \in DOMAIN index : index[i].id = index[j].id => i = j

\* ------------------------------------------------------------------ C37
\* C37: when the last store operation was a saveProjectSnapshot that returned
\* without error, the cache entry of the project equals what a fresh read of
\* its file returns.
C37_ReturnedSaveHasLanded ==
  (storeOp.kind = "save" /\ storeOp.result = "returned")
  => LET cached == storeCache[storeOp.args[1]]
         fresh == readProjectSnapshot(disk[storeOp.args[1]].main, clock)
     IN /\ cached.days = fresh.days
        /\ cached.lastTask = fresh.lastTask
        /\ cached.lastModified = fresh.lastModified
        /\ HasCurrent(cached) = HasCurrent(fresh)

\* ------------------------------------------------------------------ C38
\* C38: a stop whose write lands has finalized the session its own window
\* holds in memory: the current.start it found on disk is the start of the
\* window's activeSession.
C38_StopFinalizesOnlyOwnSession ==
  [][\A p \in Procs :
       (pc[p] = "stop_write" /\ pc'[p] # pc[p] /\ file' # file)
       => (activeSession[p].active /\ op[p].curStart = activeSession[p].start)]_vars

\* ------------------------------------------------------------------ C39
\* C39: after a stop, every finalized entry lies within the day of its
\* bucket: the local date of its start is the bucket's day and its end is not
\* later than the midnight that ends that day.
C39_EntriesLieWithinTheirDay ==
  storeOp.kind = "stop"
  => \A loc \in EntryLocs(storeOp.result) :
       LET e == EntryAt(storeOp.result, loc)
           day == storeOp.result.days[loc[1]].day
       IN ~Incomplete(e)
          => /\ formatLocalDay(e.start) = day
             /\ e.end <= (day + 1) * DayMs

\* ------------------------------------------------------------------ C40
\* C40: a running readProjectSnapshot never calls, through the migration's
\* saveProjectSnapshot, a readProjectSnapshot of the same project that reads
\* the same file content again (which would repeat without end).
C40_ReadDoesNotReenterItself ==
  \A i \in DOMAIN readStack, j \in DOMAIN readStack :
    (i < j /\ readStack[i].path = readStack[j].path)
    => readStack[i].bytes # readStack[j].bytes

====
